---- MODULE Spec2Model ----
(***************************************************************************)
(* Trading ledger (backend/app/trading.py, models.py) and portfolio         *)
(* analytics (backend/app/analytics_service.py) of the trading platform.    *)
(*                                                                          *)
(* Money is counted in whole rupees, time in clock ticks of HoursPerTick    *)
(* hours; where the rounding of float sums matters (SpecSharpe, SpecSums)   *)
(* the floats are kept bit for bit.  Python's None is the empty tuple, a    *)
(* present value v is <<v>>.                                                *)
(***************************************************************************)
EXTENDS Integers, Sequences, FiniteSets, TLC

VARIABLES
    trades_db,          \* models.trades_db: the trade ledger
    logs_db,            \* models.logs_db: the activity log
    user_settings_db,   \* models.user_settings_db
    wishlist_db,        \* models.wishlist_db: the wishlist store
    now,                \* the reading datetime.now() gives, in ticks
    last,               \* the last engine call: its arguments and what it returned
    arg_trades,         \* the trade list handed to an analytics helper called on its own
    arg_values,         \* the list of numbers handed to an analytics helper called on its own
    calls               \* the calls in flight, one per thread: their frames

vars == <<trades_db, logs_db, user_settings_db, wishlist_db, now, last, arg_trades, arg_values,
          calls>>

----------------------------------------------------------------------------
(* Bounds of the model *)

MaxTrades == 3          \* ledger length explored
MaxLogs == 1            \* log length up to which a rejected manual trade is explored
TicksPerDay == 2        \* clock ticks per calendar day
MaxDays == 1            \* largest window, in days, asked of the analytics
MaxArgLen == 3          \* longest trade list handed to an analytics helper on its own
MaxWindowLen == 4       \* most trades in a window handed to the metrics on its own
MaxScanLen == 4         \* longest trade list handed to the duration scan on its own
MaxReturns == 10        \* longest daily P&L handed to a risk helper on its own
MaxSharpeLen == 5       \* longest daily P&L handed to the Sharpe ratio on its own
MaxChartLen == 3        \* most values after the first in a value series that is charted
MaxWishlistLogs == 4    \* log length up to which the wishlist calls are explored
MaxSumsLen == 3         \* longest window whose sums are computed in binary64

(* Input domains *)

Users == {1, 2, 3}
Stocks == {"ICICIBANK", "BHARTIARTL"}
Prices == {870, 890}

\* the orders placed through /me/trade/buy and /me/trade/sell: user 1 trades
\* ICICIBANK at both prices and BHARTIARTL, user 2 trades ICICIBANK
Orders ==
    {[user_id |-> 1, stock |-> "ICICIBANK", price |-> 870, quantity |-> 2],
     [user_id |-> 1, stock |-> "ICICIBANK", price |-> 890, quantity |-> 1],
     [user_id |-> 1, stock |-> "BHARTIARTL", price |-> 890, quantity |-> 1],
     [user_id |-> 2, stock |-> "ICICIBANK", price |-> 890, quantity |-> 1]}

\* the requests sent to /me/trade/manual, with the price left out (the engine
\* quotes one) or given
ManualRequests ==
    {[user_id |-> u, stock_symbol |-> "ICICIBANK", quantity |-> 1, price |-> p] :
        u \in {2, 3}, p \in {<<>>, <<890>>}}

HoursPerTick == 24 \div TicksPerDay
MaxClock == TicksPerDay         \* the clock runs through day 0 into day 1
Day(clock) == clock \div TicksPerDay    \* strftime('%Y-%m-%d'): the calendar day

None == <<>>
Some(v) == <<v>>
OrZero(r) == IF r = None THEN 0 ELSE r[1]           \* Python's (r or 0)

BUY == "buy"
SELL == "sell"
PAPER == "paper"
LIVE == "live"

----------------------------------------------------------------------------
(* models.py *)

Trade(db, clock, user_id, stock, action, quantity, price) ==
    [id |-> Len(db) + 1, user_id |-> user_id, stock |-> stock, action |-> action,
     quantity |-> quantity, price |-> price, result |-> None, timestamp |-> clock]

Log(logs, clock, user_id, message) ==
    [id |-> Len(logs) + 1, user_id |-> user_id, message |-> message, timestamp |-> clock]

Wishlist(store, clock, user_id, stock_symbol, target_price, notes) ==
    [id |-> Len(store) + 1, user_id |-> user_id, stock_symbol |-> stock_symbol,
     target_price |-> target_price, notes |-> notes, created_at |-> clock]

UserSettings(user_id, capital_per_day, max_trades_per_day, mode) ==
    [user_id |-> user_id, capital_per_day |-> capital_per_day,
     max_trades_per_day |-> max_trades_per_day, mode |-> mode]

----------------------------------------------------------------------------
(* trading.py: TradingEngine.  An engine state st is the pair of stores     *)
(* [trades, logs]; every method maps st to the stores it leaves behind,     *)
(* with the value it returns in the field ret.                              *)

get_user_settings(settings_db, user_id) ==
    LET hits == SelectSeq(settings_db, LAMBDA s : s.user_id = user_id)
    IN  IF hits = <<>> THEN None ELSE Some(hits[1])

log_trade_activity(logs, clock, user_id, message) ==
    Append(logs, Log(logs, clock, user_id, message))

\* max(1, int((capital_per_day / max_trades_per_day) / stock_price)); the
\* operands are positive, so int() is the floor of the exact quotient
calculate_position_size(user_settings, stock_price) ==
    LET quantity == user_settings.capital_per_day
                        \div (user_settings.max_trades_per_day * stock_price)
    IN  IF quantity > 1 THEN quantity ELSE 1

\* mutant: the new trade goes to the head of the ledger (trades_db.insert(0, trade))
execute_buy_order_at_head(st, clock, user_id, stock, price, quantity) ==
    LET trade == Trade(st.trades, clock, user_id, stock, BUY, quantity, price)
    IN  [trades |-> <<trade>> \o st.trades,
         logs |-> log_trade_activity(st.logs, clock, user_id,
                                     [text |-> "BUY", quantity |-> quantity, stock |-> stock,
                                      price |-> price]),
         ret |-> TRUE]

execute_buy_order(st, clock, user_id, stock, price, quantity) ==
    LET trade == Trade(st.trades, clock, user_id, stock, BUY, quantity, price)
    IN  [trades |-> Append(st.trades, trade),
         logs |-> log_trade_activity(st.logs, clock, user_id,
                                     [text |-> "BUY", quantity |-> quantity, stock |-> stock,
                                      price |-> price]),
         ret |-> TRUE]

\* mutant: the buys of the stock by any user
buy_trades_any_user(db, user_id, stock) ==
    SelectSeq(db, LAMBDA t : t.stock = stock /\ t.action = BUY)

\* the buys of (user_id, stock) in ledger order (trading.py line 56)
buy_trades(db, user_id, stock) ==
    SelectSeq(db, LAMBDA t : t.user_id = user_id /\ t.stock = stock /\ t.action = BUY)

\* mutant: the sell is priced against the first buy (buy_trades[0])
execute_sell_order_first_buy(st, clock, user_id, stock, price, quantity) ==
    LET trade == Trade(st.trades, clock, user_id, stock, SELL, quantity, price)
        appended == Append(st.trades, trade)
        buys == buy_trades(appended, user_id, stock)
        pnl == (price - buys[1].price) * quantity
    IN  [trades |-> IF buys # <<>> THEN Append(st.trades, [trade EXCEPT !.result = Some(pnl)])
                    ELSE appended,
         logs |-> log_trade_activity(st.logs, clock, user_id,
                                     [text |-> "SELL", quantity |-> quantity, stock |-> stock,
                                      price |-> price,
                                      pnl |-> IF buys # <<>> THEN Some(pnl) ELSE None]),
         ret |-> TRUE]

\* mutant: the result is written to the matched buy (buy_trades[-1].result = pnl)
execute_sell_order_marks_buy(st, clock, user_id, stock, price, quantity) ==
    LET trade == Trade(st.trades, clock, user_id, stock, SELL, quantity, price)
        appended == Append(st.trades, trade)
        buys == buy_trades(appended, user_id, stock)
        buy == buys[Len(buys)]
        pnl == (price - buy.price) * quantity
    IN  [trades |-> IF buys # <<>>
                    THEN [i \in 1..Len(appended) |->
                            IF appended[i].id = buy.id
                            THEN [appended[i] EXCEPT !.result = Some(pnl)] ELSE appended[i]]
                    ELSE appended,
         logs |-> log_trade_activity(st.logs, clock, user_id,
                                     [text |-> "SELL", quantity |-> quantity, stock |-> stock,
                                      price |-> price,
                                      pnl |-> IF buys # <<>> THEN Some(pnl) ELSE None]),
         ret |-> TRUE]

execute_sell_order(st, clock, user_id, stock, price, quantity) ==
    LET trade == Trade(st.trades, clock, user_id, stock, SELL, quantity, price)
        appended == Append(st.trades, trade)
        buys == buy_trades(appended, user_id, stock)
    IN  IF buys # <<>>
        THEN LET buy_price == buys[Len(buys)].price
                 pnl == (price - buy_price) * quantity
             IN  [trades |-> Append(st.trades, [trade EXCEPT !.result = Some(pnl)]),
                  logs |-> log_trade_activity(st.logs, clock, user_id,
                                              [text |-> "SELL", quantity |-> quantity,
                                               stock |-> stock, price |-> price,
                                               pnl |-> Some(pnl)]),
                  ret |-> TRUE]
        ELSE [trades |-> appended,
              logs |-> log_trade_activity(st.logs, clock, user_id,
                                          [text |-> "SELL", quantity |-> quantity,
                                           stock |-> stock, price |-> price, pnl |-> None]),
              ret |-> TRUE]

\* the stocks of a trade list in order of first appearance (dict insertion order)
RECURSIVE FirstSeen(_, _)
FirstSeen(trades, seen) ==
    IF trades = <<>> THEN seen
    ELSE LET s == Head(trades).stock
         IN  FirstSeen(Tail(trades),
                       IF \E i \in 1..Len(seen) : seen[i] = s THEN seen ELSE Append(seen, s))

RECURSIVE NetQuantity(_, _)
NetQuantity(trades, stock) ==
    IF trades = <<>> THEN 0
    ELSE LET t == Head(trades)
             d == IF t.stock # stock THEN 0
                  ELSE IF t.action = BUY THEN t.quantity ELSE 0 - t.quantity
         IN  d + NetQuantity(Tail(trades), stock)

\* mutant: closed positions are kept (qty >= 0)
get_user_positions_keeps_closed(db, user_id) ==
    LET user_trades == SelectSeq(db, LAMBDA t : t.user_id = user_id)
        stocks == FirstSeen(user_trades, <<>>)
        items == [i \in 1..Len(stocks) |-> <<stocks[i], NetQuantity(user_trades, stocks[i])>>]
    IN  SelectSeq(items, LAMBDA it : it[2] >= 0)

\* the returned dict, as the sequence of its <<stock, qty>> items
get_user_positions(db, user_id) ==
    LET user_trades == SelectSeq(db, LAMBDA t : t.user_id = user_id)
        stocks == FirstSeen(user_trades, <<>>)
        items == [i \in 1..Len(stocks) |-> <<stocks[i], NetQuantity(user_trades, stocks[i])>>]
    IN  SelectSeq(items, LAMBDA it : it[2] > 0)

\* screener.screen_stocks(): market data decides the list; three outcomes are
\* explored: nothing selected, one stock, and two stocks (more than user 1 may
\* buy in a day)
ScreenerResults ==
    {<<>>,
     <<[symbol |-> "ICICIBANK", price |-> 870]>>,
     <<[symbol |-> "BHARTIARTL", price |-> 890], [symbol |-> "ICICIBANK", price |-> 890]>>}

Min(a, b) == IF a < b THEN a ELSE b
Max(a, b) == IF a > b THEN a ELSE b

\* the loop of execute_morning_buy_orders over selected_stocks[i .. max_trades-1]
RECURSIVE MorningLoop(_, _, _, _, _, _, _)
MorningLoop(st, clock, user_settings, selected_stocks, i, max_trades, executed_trades) ==
    IF i > max_trades THEN [trades |-> st.trades, logs |-> st.logs, ret |-> executed_trades]
    ELSE LET stock_data == selected_stocks[i]
             quantity == calculate_position_size(user_settings, stock_data.price)
             after == execute_buy_order(st, clock, user_settings.user_id,
                                        stock_data.symbol, stock_data.price, quantity)
         IN  MorningLoop(after, clock, user_settings, selected_stocks, i + 1, max_trades,
                         IF after.ret
                         THEN Append(executed_trades,
                                     [stock |-> stock_data.symbol, action |-> "BUY",
                                      quantity |-> quantity, price |-> stock_data.price])
                         ELSE executed_trades)

execute_morning_buy_orders(st, clock, settings_db, user_id, selected_stocks) ==
    LET user_settings == get_user_settings(settings_db, user_id)
    IN  IF user_settings = None \/ user_settings[1].mode # PAPER
        THEN [trades |-> st.trades, logs |-> st.logs, ret |-> <<>>]
        ELSE MorningLoop(st, clock, user_settings[1], selected_stocks, 1,
                         Min(Len(selected_stocks), user_settings[1].max_trades_per_day), <<>>)

\* the scan of reversed(trades_db) for the last buy of (user_id, stock)
last_buy_trade(db, user_id, stock) ==
    LET buys == buy_trades(db, user_id, stock)
    IN  IF buys = <<>> THEN None ELSE Some(buys[Len(buys)])

\* last_buy_trade.price * (1 + random.uniform(-0.03, 0.03)), on the price grid
EveningPrices(buy_price) == {p \in Prices : 97 * buy_price <= 100 * p /\ 100 * p <= 103 * buy_price}

\* the loop of execute_evening_sell_orders over positions.items(); current_price
\* gives the price drawn for each stock
RECURSIVE EveningLoop(_, _, _, _, _, _)
EveningLoop(st, clock, user_id, positions, current_price, executed_trades) ==
    IF positions = <<>> THEN [trades |-> st.trades, logs |-> st.logs, ret |-> executed_trades]
    ELSE LET stock == Head(positions)[1]
             quantity == Head(positions)[2]
         IN  IF last_buy_trade(st.trades, user_id, stock) = None
             THEN EveningLoop(st, clock, user_id, Tail(positions), current_price, executed_trades)
             ELSE LET after == execute_sell_order(st, clock, user_id, stock,
                                                  current_price[stock], quantity)
                  IN  EveningLoop(after, clock, user_id, Tail(positions), current_price,
                                  IF after.ret
                                  THEN Append(executed_trades,
                                              [stock |-> stock, action |-> "SELL",
                                               quantity |-> quantity,
                                               price |-> current_price[stock]])
                                  ELSE executed_trades)

execute_evening_sell_orders(st, clock, settings_db, user_id, current_price) ==
    LET user_settings == get_user_settings(settings_db, user_id)
    IN  IF user_settings = None \/ user_settings[1].mode # PAPER
        THEN [trades |-> st.trades, logs |-> st.logs, ret |-> <<>>]
        ELSE EveningLoop(st, clock, user_id, get_user_positions(st.trades, user_id),
                         current_price, <<>>)

base_prices(symbol) ==
    CASE symbol = "ICICIBANK" -> 900
      [] symbol = "BHARTIARTL" -> 850
      [] OTHER -> 1000

\* round(base_price * (1 + random.uniform(-0.05, 0.05)), 2), on the price grid
get_current_stock_price(symbol) ==
    {p \in Prices : 95 * base_prices(symbol) <= 100 * p /\ 100 * p <= 105 * base_prices(symbol)}

\* mutant: the trade is placed whether or not the user has settings
execute_manual_trade_unchecked(st, clock, settings_db, user_id, stock_symbol, action, quantity, price, quote) ==
    LET p == IF price = None THEN quote ELSE price[1]
    IN  IF action = BUY
        THEN execute_buy_order(st, clock, user_id, stock_symbol, p, quantity)
        ELSE execute_sell_order(st, clock, user_id, stock_symbol, p, quantity)

\* price is None or Some(p); quote is the value get_current_stock_price returns
execute_manual_trade(st, clock, settings_db, user_id, stock_symbol, action, quantity, price, quote) ==
    IF get_user_settings(settings_db, user_id) = None
    THEN [trades |-> st.trades,
          logs |-> log_trade_activity(st.logs, clock, user_id,
                                      [text |-> "Failed to execute", action |-> action]),
          ret |-> FALSE]
    ELSE LET p == IF price = None THEN quote ELSE price[1]
         IN  IF action = BUY
             THEN execute_buy_order(st, clock, user_id, stock_symbol, p, quantity)
             ELSE execute_sell_order(st, clock, user_id, stock_symbol, p, quantity)

\* The wishlist methods map the pair of stores [wishlist, logs] to the stores
\* they leave behind, with the value they return in the field ret.
add_to_wishlist(ws, clock, user_id, stock_symbol, target_price, notes) ==
    IF \E i \in 1..Len(ws.wishlist) :
          /\ ws.wishlist[i].user_id = user_id
          /\ ws.wishlist[i].stock_symbol = stock_symbol
    THEN [wishlist |-> ws.wishlist, logs |-> ws.logs, ret |-> FALSE]
    ELSE [wishlist |-> Append(ws.wishlist,
                              Wishlist(ws.wishlist, clock, user_id, stock_symbol,
                                       target_price, notes)),
          logs |-> log_trade_activity(ws.logs, clock, user_id,
                                      [text |-> "Added to wishlist", stock |-> stock_symbol]),
          ret |-> TRUE]

\* wishlist_db.pop(i): the list without its i-th item
Pop(list, i) == SubSeq(list, 1, i - 1) \o SubSeq(list, i + 1, Len(list))

\* mutant: the item with the id is removed, whoever owns it
remove_from_wishlist_of_anyone(ws, clock, user_id, wishlist_id) ==
    LET hits == {i \in 1..Len(ws.wishlist) : ws.wishlist[i].id = wishlist_id}
    IN  IF hits = {} THEN [wishlist |-> ws.wishlist, logs |-> ws.logs, ret |-> FALSE]
        ELSE LET i == CHOOSE k \in hits : \A h \in hits : k <= h
             IN  [wishlist |-> Pop(ws.wishlist, i),
                  logs |-> log_trade_activity(ws.logs, clock, user_id,
                                              [text |-> "Removed from wishlist",
                                               stock |-> ws.wishlist[i].stock_symbol]),
                  ret |-> TRUE]

\* the first item with the id and the user is removed
remove_from_wishlist(ws, clock, user_id, wishlist_id) ==
    LET hits == {i \in 1..Len(ws.wishlist) :
                    /\ ws.wishlist[i].id = wishlist_id
                    /\ ws.wishlist[i].user_id = user_id}
    IN  IF hits = {} THEN [wishlist |-> ws.wishlist, logs |-> ws.logs, ret |-> FALSE]
        ELSE LET i == CHOOSE k \in hits : \A h \in hits : k <= h
             IN  [wishlist |-> Pop(ws.wishlist, i),
                  logs |-> log_trade_activity(ws.logs, clock, user_id,
                                              [text |-> "Removed from wishlist",
                                               stock |-> ws.wishlist[i].stock_symbol]),
                  ret |-> TRUE]

get_user_wishlist(store, user_id) == SelectSeq(store, LAMBDA item : item.user_id = user_id)

----------------------------------------------------------------------------
(* Numbers.  A real value is kept exactly as [n, d, r], standing for          *)
(* (n / d) * sqrt(r), in lowest terms: d > 0, gcd(n, d) = 1, r square-free,   *)
(* and 0 is [0, 1, 1].  float('inf') is [1, 0, 1].                            *)

Abs(x) == IF x < 0 THEN 0 - x ELSE x

RECURSIVE GCD(_, _)
GCD(a, b) == IF b = 0 THEN a ELSE GCD(b, a % b)

\* the largest s, built from factors >= k, whose square divides r
RECURSIVE SquarePart(_, _)
SquarePart(r, k) ==
    IF k * k > r THEN 1
    ELSE IF r % (k * k) = 0 THEN k * SquarePart(r \div (k * k), k)
    ELSE SquarePart(r, k + 1)

Zero == [n |-> 0, d |-> 1, r |-> 1]
Inf == [n |-> 1, d |-> 0, r |-> 1]

\* (n / d) * sqrt(r) for d > 0 and r >= 0
Real(n, d, r) ==
    IF n = 0 \/ r = 0 THEN Zero
    ELSE LET s == SquarePart(r, 2)
             g1 == GCD(Abs(n), d)
             g2 == GCD(s, d \div g1)
         IN  [n |-> (n \div g1) * (s \div g2), d |-> (d \div g1) \div g2, r |-> r \div (s * s)]

Rat(n, d) == Real(n, d, 1)
ZeroSum == [rat |-> Zero, surd |-> Zero]       \* 0 as a sum rat + surd
Whole(n) == Rat(n, 1)

RECURSIVE Sum(_)
Sum(xs) == IF xs = <<>> THEN 0 ELSE Head(xs) + Sum(Tail(xs))

Squares(xs) == [i \in 1..Len(xs) |-> xs[i] * xs[i]]

RECURSIVE GCDAll(_)
GCDAll(xs) == IF xs = <<>> THEN 0 ELSE GCD(Abs(Head(xs)), GCDAll(Tail(xs)))

\* len(xs)^2 times the population variance of xs
Variance(xs) == Len(xs) * Sum(Squares(xs)) - Sum(xs) * Sum(xs)

\* np.std(xs) = Scale(xs) * sqrt(Radicand(xs)) / len(xs): the common factor of
\* the values is taken out of the root
Scale(xs) == IF GCDAll(xs) = 0 THEN 1 ELSE GCDAll(xs)
Radicand(xs) == Variance([i \in 1..Len(xs) |-> xs[i] \div Scale(xs)])

np_std(xs) == Real(Scale(xs), Len(xs), Radicand(xs))
np_mean(xs) == Rat(Sum(xs), Len(xs))

\* sorted(trades, key=lambda x: x.timestamp): stable
RECURSIVE InsertByTimestamp(_, _)
InsertByTimestamp(sorted, t) ==
    IF sorted = <<>> THEN <<t>>
    ELSE IF sorted[Len(sorted)].timestamp <= t.timestamp THEN Append(sorted, t)
    ELSE Append(InsertByTimestamp(SubSeq(sorted, 1, Len(sorted) - 1), t), sorted[Len(sorted)])

RECURSIVE SortedByTimestamp(_)
SortedByTimestamp(trades) ==
    IF trades = <<>> THEN <<>>
    ELSE InsertByTimestamp(SortedByTimestamp(SubSeq(trades, 1, Len(trades) - 1)),
                           trades[Len(trades)])

RECURSIVE InsertAscending(_, _)
InsertAscending(sorted, x) ==
    IF sorted = <<>> THEN <<x>>
    ELSE IF sorted[Len(sorted)] <= x THEN Append(sorted, x)
    ELSE Append(InsertAscending(SubSeq(sorted, 1, Len(sorted) - 1), x), sorted[Len(sorted)])

RECURSIVE SortedAscending(_)
SortedAscending(xs) ==
    IF xs = <<>> THEN <<>>
    ELSE InsertAscending(SortedAscending(SubSeq(xs, 1, Len(xs) - 1)), xs[Len(xs)])

----------------------------------------------------------------------------
(* binary64 arithmetic, where the code compares a float with 0.  A positive   *)
(* float is kept by its mantissa in two limbs, <<hi, lo>> standing for        *)
(* hi * 2^26 + lo; a sum of equal floats is kept in units of the last place   *)
(* of the summand.  Rounding is to nearest, ties to even.                     *)

RECURSIVE Pow2(_)
Pow2(k) == IF k = 0 THEN 1 ELSE 2 * Pow2(k - 1)

RECURSIVE BitLen(_)
BitLen(a) == IF a = 0 THEN 0 ELSE 1 + BitLen(a \div 2)

Limb == Pow2(26)

\* risk_free_rate / 252 = 0.05 / 252 = 0x1.a01a01a01a01ap-13
\*                      = (RateHi * 2^26 + RateLo) * 2^-65
RateHi == 109078534
RateLo == 33660954

Carry(hi, lo) ==
    IF lo >= Limb THEN <<hi + 1, lo - Limb>>
    ELSE IF lo < 0 THEN <<hi - 1, lo + Limb>>
    ELSE <<hi, lo>>

\* the mantissa of the float |x - 0.05 / 252| for a whole number x: that of
\* |x| in units of the last place of the result, less or plus 0.05 / 252 in the
\* same units, rounded
ExcessReturn(x) ==
    IF x = 0 THEN <<RateHi, RateLo>>
    ELSE LET a == Abs(x)
             E == IF x > 0 /\ a = Pow2(BitLen(a) - 1) THEN BitLen(a) - 2 ELSE BitLen(a) - 1
             s == E + 13
             whole == IF s <= 26
                      THEN <<RateHi \div Pow2(s),
                             (RateHi % Pow2(s)) * Pow2(26 - s) + RateLo \div Pow2(s)>>
                      ELSE <<0, RateHi \div Pow2(s - 26)>>
             part == IF s <= 26 THEN <<0, RateLo % Pow2(s)>>
                     ELSE <<RateHi % Pow2(s - 26), RateLo>>
             half == IF s <= 26 THEN <<0, Pow2(s - 1)>> ELSE <<Pow2(s - 27), 0>>
             above == part[1] > half[1] \/ (part[1] = half[1] /\ part[2] > half[2])
             below == part[1] < half[1] \/ (part[1] = half[1] /\ part[2] < half[2])
         IN  IF x > 0
             THEN LET base == Carry(a * Pow2(26 - E) - whole[1], 0 - whole[2])
                      down == Carry(base[1], base[2] - 1)
                  IN  IF part = <<0, 0>> \/ below THEN base
                      ELSE IF above THEN down
                      ELSE IF base[2] % 2 = 0 THEN base ELSE down
             ELSE LET base == Carry(a * Pow2(26 - E) + whole[1], whole[2])
                      up == Carry(base[1], base[2] + 1)
                  IN  IF above THEN up
                      ELSE IF below THEN base
                      ELSE IF base[2] % 2 = 0 THEN base ELSE up

\* hi * 2^26 + lo rounded to 53 significant bits
Round53(m) ==
    LET t == BitLen(m[1]) - 27
    IN  IF t <= 0 THEN m
        ELSE LET rem == m[2] % Pow2(t)
                 up == \/ 2 * rem > Pow2(t)
                       \/ 2 * rem = Pow2(t) /\ (m[2] \div Pow2(t)) % 2 = 1
             IN  IF up THEN Carry(m[1], m[2] - rem + Pow2(t)) ELSE <<m[1], m[2] - rem>>

\* acc + m + ... + m (k times), each sum rounded
RECURSIVE AddTimes(_, _, _)
AddTimes(acc, m, k) ==
    IF k = 0 THEN acc
    ELSE AddTimes(Round53(Carry(acc[1] + m[1], acc[2] + m[2])), m, k - 1)

\* np.add.reduce over n equal floats m (n <= 128): one by one below 8, and from
\* 8 on in eight running sums that are paired off, the rest added one by one
np_sum_equal(m, n) ==
    IF n < 8 THEN AddTimes(<<0, 0>>, m, n)
    ELSE LET r == AddTimes(m, m, (n \div 8) - 1)
         IN  AddTimes(<<r[1] * 8 + (r[2] * 8) \div Limb, (r[2] * 8) % Limb>>, m, n % 8)

\* np.mean of n floats equal to m is m again: the sum divided by n, rounded to
\* 53 significant bits, has the mantissa m
mean_is_exact(m, n) ==
    LET sum == np_sum_equal(m, n)
        qh == sum[1] \div n
        t == (sum[1] % n) * Limb + sum[2]
        ql == t \div n
        r == t % n
        len == BitLen(qh) + 26
    IN  IF len = 53
        THEN LET up == 2 * r > n \/ (2 * r = n /\ ql % 2 = 1)
             IN  (IF up THEN Carry(qh, ql + 1) ELSE <<qh, ql>>) = m
        ELSE IF len = 52
        THEN LET c == IF 2 * r >= n THEN 1 ELSE 0
                 q2 == <<2 * qh + (2 * ql + c) \div Limb, (2 * ql + c) % Limb>>
                 r2 == 2 * r - n * c
                 up == 2 * r2 > n \/ (2 * r2 = n /\ q2[2] % 2 = 1)
             IN  (IF up THEN Carry(q2[1], q2[2] + 1) ELSE q2)
                     = <<2 * m[1] + (2 * m[2]) \div Limb, (2 * m[2]) % Limb>>
        ELSE FALSE

\* np.std(xs - 0.05 / 252) == 0 for whole numbers xs: every deviation from the
\* mean is the float 0, which takes equal entries and a mean that is exact
std_of_excess_is_zero(xs) ==
    /\ \A i \in 1..Len(xs) : xs[i] = xs[1]
    /\ mean_is_exact(ExcessReturn(xs[1]), Len(xs))

\* a float that is not 0 and beyond 10^15 in size, of which the sign is kept:
\* a mean divided by the rounding error of that mean
Huge(sign) == [n |-> sign, d |-> 0, r |-> 7]

----------------------------------------------------------------------------
(* analytics_service.py: AnalyticsService.  Every helper wraps its body in    *)
(* try/except Exception; `fault` says that the body raises.                   *)

Results(trades) == [i \in 1..Len(trades) |-> OrZero(trades[i].result)]

\* mutant: the empty result carries the neutral beta 1.0
_empty_metrics_neutral_beta ==
    [portfolio_value |-> 0, total_return |-> 0, return_percentage |-> Zero,
     sharpe_ratio |-> Zero, max_drawdown |-> Zero, volatility |-> Zero, win_rate |-> Zero,
     avg_trade_duration |-> Zero, total_trades |-> 0, winning_trades |-> 0,
     losing_trades |-> 0, avg_win |-> Zero, avg_loss |-> Zero, profit_factor |-> Zero,
     risk_metrics |-> [value_at_risk |-> Zero, beta |-> Whole(1), alpha |-> ZeroSum],
     performance_chart_data |-> <<>>]

_empty_metrics ==
    [portfolio_value |-> 0, total_return |-> 0, return_percentage |-> Zero,
     sharpe_ratio |-> Zero, max_drawdown |-> Zero, volatility |-> Zero, win_rate |-> Zero,
     avg_trade_duration |-> Zero, total_trades |-> 0, winning_trades |-> 0,
     losing_trades |-> 0, avg_win |-> Zero, avg_loss |-> Zero, profit_factor |-> Zero,
     risk_metrics |-> [value_at_risk |-> Zero, beta |-> Zero, alpha |-> ZeroSum],
     performance_chart_data |-> <<>>]

\* mutant: a day seen for the first time is put in front
RECURSIVE DailyPnl_newest_first(_, _)
DailyPnl_newest_first(trades, daily_pnl) ==
    IF trades = <<>> THEN daily_pnl
    ELSE LET trade == Head(trades)
             date_key == Day(trade.timestamp)
             known == \E i \in 1..Len(daily_pnl) : daily_pnl[i].date_key = date_key
             started == IF known THEN daily_pnl
                        ELSE <<[date_key |-> date_key, pnl |-> 0]>> \o daily_pnl
         IN  DailyPnl_newest_first(Tail(trades),
                      [i \in 1..Len(started) |->
                          IF started[i].date_key = date_key
                          THEN [started[i] EXCEPT !.pnl = @ + OrZero(trade.result)]
                          ELSE started[i]])

\* the dict daily_pnl as the sequence of its items [date_key, pnl], in insertion order
RECURSIVE DailyPnl(_, _)
DailyPnl(trades, daily_pnl) ==
    IF trades = <<>> THEN daily_pnl
    ELSE LET trade == Head(trades)
             date_key == Day(trade.timestamp)
             known == \E i \in 1..Len(daily_pnl) : daily_pnl[i].date_key = date_key
             started == IF known THEN daily_pnl
                        ELSE Append(daily_pnl, [date_key |-> date_key, pnl |-> 0])
         IN  DailyPnl(Tail(trades),
                      [i \in 1..Len(started) |->
                          IF started[i].date_key = date_key
                          THEN [started[i] EXCEPT !.pnl = @ + OrZero(trade.result)]
                          ELSE started[i]])

_calculate_daily_returns(trades, fault) ==
    IF fault THEN <<0>>
    ELSE LET daily_pnl == DailyPnl(trades, <<>>)
             returns == [i \in 1..Len(daily_pnl) |-> daily_pnl[i].pnl]
         IN  IF returns # <<>> THEN returns ELSE <<0>>

RECURSIVE Progression(_, _)
Progression(trades, portfolio_values) ==
    IF trades = <<>> THEN portfolio_values
    ELSE LET current_value == portfolio_values[Len(portfolio_values)]
                                  + OrZero(Head(trades).result)
         IN  Progression(Tail(trades), Append(portfolio_values, Max(0, current_value)))

\* mutant: the trades are taken in list order (no sort)
_calculate_portfolio_progression_unsorted(trades, fault) ==
    IF fault THEN <<10000>>
    ELSE Progression(trades, <<10000>>)

_calculate_portfolio_progression(trades, fault) ==
    IF fault THEN <<10000>>
    ELSE Progression(SortedByTimestamp(trades), <<10000>>)

\* mean(excess) / std(excess) * sqrt(252) with excess = returns - 0.05 / 252:
\* mean(excess) = (5040 * sum - len) / (5040 * len), std(excess) = std(returns),
\* sqrt(252) = 6 * sqrt(7)
\* The test np.std(excess_returns) == 0 is made on floats: equal returns pass
\* it only when their float mean is exact; when it is not, the mean is divided
\* by the rounding error.
_calculate_sharpe_ratio(returns, fault) ==
    IF fault THEN Zero
    ELSE IF returns = <<>> \/ Len(returns) < 2 THEN Zero
    ELSE IF std_of_excess_is_zero(returns) THEN Zero
    ELSE IF Variance(returns) = 0 THEN Huge(IF returns[1] > 0 THEN 1 ELSE -1)
    ELSE Real(5040 * Sum(returns) - Len(returns),
              840 * Scale(returns) * Radicand(returns), 7 * Radicand(returns))

\* mutant: the peak stays the first value of the series
RECURSIVE DrawdownLoop_first_peak(_, _, _)
DrawdownLoop_first_peak(values, peak, max_dd) ==
    IF values = <<>> THEN [raised |-> FALSE, max_dd |-> max_dd]
    ELSE LET value == Head(values)
         IN  IF value > peak THEN DrawdownLoop_first_peak(Tail(values), peak, max_dd)
             ELSE IF peak = 0 THEN [raised |-> TRUE, max_dd |-> max_dd]
             ELSE DrawdownLoop_first_peak(Tail(values), peak,
                               IF (peak - value) * max_dd[2] > max_dd[1] * peak
                               THEN <<peak - value, peak>> ELSE max_dd)

\* the loop over portfolio_values[1:]; max_dd is kept as the pair <<peak - value, peak>>
\* of the largest drawdown seen, and raised is set by a division by a zero peak
RECURSIVE DrawdownLoop(_, _, _)
DrawdownLoop(values, peak, max_dd) ==
    IF values = <<>> THEN [raised |-> FALSE, max_dd |-> max_dd]
    ELSE LET value == Head(values)
         IN  IF value > peak THEN DrawdownLoop(Tail(values), value, max_dd)
             ELSE IF peak = 0 THEN [raised |-> TRUE, max_dd |-> max_dd]
             ELSE DrawdownLoop(Tail(values), peak,
                               IF (peak - value) * max_dd[2] > max_dd[1] * peak
                               THEN <<peak - value, peak>> ELSE max_dd)

_calculate_max_drawdown(portfolio_values, fault) ==
    IF fault THEN Zero
    ELSE IF Len(portfolio_values) < 2 THEN Zero
    ELSE LET loop == DrawdownLoop(Tail(portfolio_values), portfolio_values[1], <<0, 1>>)
         IN  IF loop.raised THEN Zero ELSE Rat(loop.max_dd[1] * 100, loop.max_dd[2])

\* np.std(returns) * np.sqrt(252) * 100
_calculate_volatility(returns, fault) ==
    IF fault THEN Zero
    ELSE IF Len(returns) < 2 THEN Zero
    ELSE Real(600 * Scale(returns), Len(returns), 7 * Radicand(returns))

\* mutant: a sell leaves the open buy of its stock in place (no del)
RECURSIVE DurationLoop_keeps_open(_, _, _)
DurationLoop_keeps_open(trades, positions, durations) ==
    IF trades = <<>> THEN durations
    ELSE LET trade == Head(trades)
         IN  IF trade.action = BUY
             THEN DurationLoop_keeps_open(Tail(trades),
                               [s \in DOMAIN positions \cup {trade.stock} |->
                                   IF s = trade.stock THEN trade.timestamp ELSE positions[s]],
                               durations)
             ELSE IF trade.action = SELL /\ trade.stock \in DOMAIN positions
             THEN DurationLoop_keeps_open(Tail(trades), positions,
                               Append(durations, trade.timestamp - positions[trade.stock]))
             ELSE DurationLoop_keeps_open(Tail(trades), positions, durations)

\* positions is the dict stock -> timestamp of its open buy, as a function on
\* the stocks that have one; durations are in ticks
RECURSIVE DurationLoop(_, _, _)
DurationLoop(trades, positions, durations) ==
    IF trades = <<>> THEN durations
    ELSE LET trade == Head(trades)
         IN  IF trade.action = BUY
             THEN DurationLoop(Tail(trades),
                               [s \in DOMAIN positions \cup {trade.stock} |->
                                   IF s = trade.stock THEN trade.timestamp ELSE positions[s]],
                               durations)
             ELSE IF trade.action = SELL /\ trade.stock \in DOMAIN positions
             THEN DurationLoop(Tail(trades),
                               [s \in DOMAIN positions \ {trade.stock} |-> positions[s]],
                               Append(durations, trade.timestamp - positions[trade.stock]))
             ELSE DurationLoop(Tail(trades), positions, durations)

_calculate_avg_trade_duration(trades, fault) ==
    IF fault THEN Zero
    ELSE IF Len(trades) < 2 THEN Zero
    ELSE LET durations == DurationLoop(SortedByTimestamp(trades), <<>>, <<>>)
         IN  IF durations # <<>> THEN Rat(Sum(durations) * HoursPerTick, Len(durations))
             ELSE Zero

\* mutant: the percentile is taken without interpolation (the lower neighbour)
_calculate_var_lower(returns, fault) ==
    IF fault THEN Zero
    ELSE IF Len(returns) < 10 THEN Zero
    ELSE Whole(SortedAscending(returns)[((Len(returns) - 1) \div 20) + 1])

\* np.percentile(returns, 5): linear interpolation at index (len - 1) * 5 / 100
_calculate_var(returns, fault) ==
    IF fault THEN Zero
    ELSE IF Len(returns) < 10 THEN Zero
    ELSE LET sorted == SortedAscending(returns)
             lo == (Len(returns) - 1) \div 20
             rest == (Len(returns) - 1) % 20
         IN  IF rest = 0 THEN Whole(sorted[lo + 1])
             ELSE Rat(20 * sorted[lo + 1] + rest * (sorted[lo + 2] - sorted[lo + 1]), 20)

\* mutant: ten observations still count as too few
_calculate_beta_above_ten(returns, fault) ==
    IF fault THEN Whole(1)
    ELSE IF Len(returns) <= 10 THEN Whole(1)
    ELSE Real(14 * Scale(returns), 3 * Len(returns), Radicand(returns))

\* correlation 0.7 * (np.std(returns) / market_volatility 0.15)
_calculate_beta(returns, fault) ==
    IF fault THEN Whole(1)
    ELSE IF Len(returns) < 10 THEN Whole(1)
    ELSE Real(14 * Scale(returns), 3 * Len(returns), Radicand(returns))

\* (portfolio_return - (risk_free_rate + beta * (market_return - risk_free_rate)))
\* * 252 * 100 = 25200 * total_return / len - 5 - 7 * beta; the value is the sum of
\* its rational part rat and its irrational part surd
_calculate_alpha(returns, total_return, fault, beta_fault) ==
    IF fault THEN ZeroSum
    ELSE IF returns = <<>> THEN ZeroSum
    ELSE LET beta == _calculate_beta(returns, beta_fault)
             len == Len(returns)
         IN  IF beta.r = 1
             THEN [rat |-> Rat((25200 * total_return - 5 * len) * beta.d - 7 * beta.n * len,
                               len * beta.d),
                   surd |-> Zero]
             ELSE [rat |-> Rat(25200 * total_return - 5 * len, len),
                   surd |-> [beta EXCEPT !.n = 0 - 7 * @]]

\* mutant: the date keeps the time of day (strftime('%Y-%m-%d %H:%M'))
_prepare_chart_data_with_time(clock, portfolio_values, fault) ==
    IF fault THEN <<>>
    ELSE [k \in 1..Len(portfolio_values) |->
            [date |-> clock - (Len(portfolio_values) - (k - 1)) * TicksPerDay,
             portfolio_value |-> portfolio_values[k],
             cumulative_return |->
                IF portfolio_values[1] > 0
                THEN Rat((portfolio_values[k] - portfolio_values[1]) * 100, portfolio_values[1])
                ELSE Zero]]

\* mutant: the dates count back from today, the last entry being dated today
_prepare_chart_data_until_today(clock, portfolio_values, fault) ==
    IF fault THEN <<>>
    ELSE [k \in 1..Len(portfolio_values) |->
            [date |-> Day(clock - (Len(portfolio_values) - k) * TicksPerDay),
             portfolio_value |-> portfolio_values[k],
             cumulative_return |->
                IF portfolio_values[1] > 0
                THEN Rat((portfolio_values[k] - portfolio_values[1]) * 100, portfolio_values[1])
                ELSE Zero]]

\* date is the calendar day of now - timedelta(days = len - i), i counted from 0
_prepare_chart_data(clock, portfolio_values, fault) ==
    IF fault THEN <<>>
    ELSE [k \in 1..Len(portfolio_values) |->
            [date |-> Day(clock - (Len(portfolio_values) - (k - 1)) * TicksPerDay),
             portfolio_value |-> portfolio_values[k],
             cumulative_return |->
                IF portfolio_values[1] > 0
                THEN Rat((portfolio_values[k] - portfolio_values[1]) * 100, portfolio_values[1])
                ELSE Zero]]

FaultPoints ==
    {"orchestrator", "daily_returns", "portfolio_progression", "sharpe_ratio", "max_drawdown",
     "volatility", "avg_trade_duration", "var", "beta", "alpha", "chart_data"}

\* mutant: the trades of every user in the window
user_trades_any_user(db, clock, user_id, days) ==
    LET end_date == clock
        start_date == end_date - days * TicksPerDay
    IN  SelectSeq(db, LAMBDA trade : /\ start_date <= trade.timestamp
                                      /\ trade.timestamp <= end_date)

\* the trades the orchestrator selects (analytics_service.py lines 16-23)
user_trades(db, clock, user_id, days) ==
    LET end_date == clock
        start_date == end_date - days * TicksPerDay
    IN  SelectSeq(db, LAMBDA trade : /\ trade.user_id = user_id
                                      /\ start_date <= trade.timestamp
                                      /\ trade.timestamp <= end_date)

\* mutant: the notional of every trade counts as invested
return_percentage_of_turnover(trades) ==
    LET total_return == Sum(Results(trades))
        total_invested == Sum([i \in 1..Len(trades) |-> trades[i].price * trades[i].quantity])
    IN  IF total_invested > 0 THEN Rat(total_return * 100, total_invested) ELSE Zero

\* lines 32-38: total_return / total_invested * 100, or 0
return_percentage(trades) ==
    LET total_return == Sum(Results(trades))
        buys == SelectSeq(trades, LAMBDA trade : trade.action = BUY)
        total_invested == Sum([i \in 1..Len(buys) |-> buys[i].price * buys[i].quantity])
    IN  IF total_invested > 0 THEN Rat(total_return * 100, total_invested) ELSE Zero

\* mutant: a trade that did not lose counts as won
winning_trades_not_lost(trades) == SelectSeq(Results(trades), LAMBDA r : r >= 0)

\* lines 44-45: the results of the trades with (t.result or 0) > 0, and < 0
winning_trades(trades) == SelectSeq(Results(trades), LAMBDA r : r > 0)

losing_trades(trades) == SelectSeq(Results(trades), LAMBDA r : r < 0)

\* mutant: without losses the factor is 0
profit_factor_zero_without_losses(trades) ==
    LET total_wins == Sum(winning_trades(trades))
        total_losses == Abs(Sum(losing_trades(trades)))
    IN  IF total_losses > 0 THEN Rat(total_wins, total_losses) ELSE Zero

\* lines 51-53
profit_factor(trades) ==
    LET total_wins == Sum(winning_trades(trades))
        total_losses == Abs(Sum(losing_trades(trades)))
    IN  IF total_losses > 0 THEN Rat(total_wins, total_losses) ELSE Inf

\* the try body of calculate_portfolio_metrics below the empty-window return
PortfolioMetricsOf(trades, clock, faults) ==
    LET daily_returns == _calculate_daily_returns(trades, "daily_returns" \in faults)
        portfolio_values ==
            _calculate_portfolio_progression(trades, "portfolio_progression" \in faults)
        total_return == Sum(Results(trades))
    IN  [portfolio_value |-> IF portfolio_values # <<>>
                             THEN portfolio_values[Len(portfolio_values)] ELSE 0,
         total_return |-> total_return,
         return_percentage |-> return_percentage(trades),
         sharpe_ratio |-> _calculate_sharpe_ratio(daily_returns, "sharpe_ratio" \in faults),
         max_drawdown |-> _calculate_max_drawdown(portfolio_values, "max_drawdown" \in faults),
         volatility |-> _calculate_volatility(daily_returns, "volatility" \in faults),
         win_rate |-> IF trades # <<>>
                      THEN Rat(Len(winning_trades(trades)) * 100, Len(trades))
                      ELSE Zero,
         avg_trade_duration |->
            _calculate_avg_trade_duration(trades, "avg_trade_duration" \in faults),
         total_trades |-> Len(trades),
         winning_trades |-> Len(winning_trades(trades)),
         losing_trades |-> Len(losing_trades(trades)),
         avg_win |-> IF winning_trades(trades) # <<>>
                     THEN np_mean(winning_trades(trades)) ELSE Zero,
         avg_loss |-> IF losing_trades(trades) # <<>>
                      THEN np_mean(losing_trades(trades)) ELSE Zero,
         profit_factor |-> profit_factor(trades),
         risk_metrics |->
            [value_at_risk |-> _calculate_var(daily_returns, "var" \in faults),
             beta |-> _calculate_beta(daily_returns, "beta" \in faults),
             alpha |-> _calculate_alpha(daily_returns, total_return, "alpha" \in faults,
                                        "beta" \in faults)],
         performance_chart_data |->
            _prepare_chart_data(clock, portfolio_values, "chart_data" \in faults)]

\* what a call ends with: a returned metrics object, or an exception that escapes
Return(metrics) == [kind |-> "return", value |-> metrics]
Raise == [kind |-> "raise", value |-> _empty_metrics]

\* mutant: the orchestrator has no except clause
calculate_portfolio_metrics_no_handler(db, clock, user_id, days, faults) ==
    IF "orchestrator" \in faults THEN Raise
    ELSE LET trades == user_trades(db, clock, user_id, days)
         IN  IF trades = <<>> THEN Return(_empty_metrics)
             ELSE Return(PortfolioMetricsOf(trades, clock, faults))

calculate_portfolio_metrics(db, clock, user_id, days, faults) ==
    IF "orchestrator" \in faults THEN Return(_empty_metrics)
    ELSE LET trades == user_trades(db, clock, user_id, days)
         IN  IF trades = <<>> THEN Return(_empty_metrics)
             ELSE Return(PortfolioMetricsOf(trades, clock, faults))

----------------------------------------------------------------------------
(* The state machine: one action per engine call *)

Stores == [trades |-> trades_db, logs |-> logs_db]

NoCall == [op |-> "none"]

\* the callers that may be inside calculate_portfolio_metrics at the same time
Callers == {1, 2}

\* no call of calculate_portfolio_metrics is in flight
Idle == [pc |-> "idle"]
NoCalls == [c \in Callers |-> Idle]

\* main.py startup and register give a user default settings (PAPER); PUT
\* /me/settings changes them.  User 1 trades on paper, user 2 has switched to
\* LIVE, user 3 has no settings record.
Init ==
    /\ trades_db = <<>>
    /\ logs_db = <<>>
    /\ user_settings_db = <<UserSettings(1, 1750, 1, PAPER), UserSettings(2, 1750, 1, LIVE)>>
    /\ wishlist_db = <<>>
    /\ now = 0
    /\ last = NoCall
    /\ arg_trades = <<>>
    /\ arg_values = <<>>
    /\ calls = NoCalls

Commit(after, call) ==
    /\ trades_db' = after.trades
    /\ logs_db' = after.logs
    /\ last' = call
    /\ UNCHANGED <<user_settings_db, wishlist_db, now, arg_trades, arg_values, calls>>

BuyOrder ==
    \E o \in Orders :
        /\ Len(trades_db) < MaxTrades
        /\ LET after == execute_buy_order(Stores, now, o.user_id, o.stock, o.price, o.quantity)
           IN  Commit(after, [op |-> "trade", ret |-> after.ret])

SellOrder ==
    \E o \in Orders :
        /\ Len(trades_db) < MaxTrades
        /\ LET after == execute_sell_order(Stores, now, o.user_id, o.stock, o.price, o.quantity)
           IN  Commit(after, [op |-> "trade", ret |-> after.ret])

ManualTrade ==
    \E r \in ManualRequests, action \in {BUY, SELL} :
        \E quote \in get_current_stock_price(r.stock_symbol) :
            /\ r.price # None => quote = r.price[1]
            /\ IF get_user_settings(user_settings_db, r.user_id) = None
               THEN Len(logs_db) < MaxLogs
               ELSE Len(trades_db) < MaxTrades
            /\ LET after == execute_manual_trade(Stores, now, user_settings_db, r.user_id,
                                                 r.stock_symbol, action, r.quantity, r.price,
                                                 quote)
               IN  Commit(after, [op |-> "trade", ret |-> after.ret])

MorningBuyOrders ==
    \E user_id \in Users, selected_stocks \in ScreenerResults :
        LET after == execute_morning_buy_orders(Stores, now, user_settings_db, user_id,
                                                selected_stocks)
        IN  /\ Len(after.trades) <= MaxTrades
            /\ Commit(after, [op |-> "list", ret |-> after.ret])

EveningSellOrders ==
    \E user_id \in Users, current_price \in [Stocks -> Prices] :
        /\ \A stock \in Stocks :
              LET buy == last_buy_trade(trades_db, user_id, stock)
              IN  IF buy = None
                  THEN current_price[stock] = CHOOSE p \in Prices : TRUE
                  ELSE current_price[stock] \in EveningPrices(buy[1].price)
        /\ LET after == execute_evening_sell_orders(Stores, now, user_settings_db, user_id,
                                                    current_price)
           IN  /\ Len(after.trades) <= MaxTrades
               /\ Commit(after, [op |-> "list", ret |-> after.ret])

\* time passes
Tick ==
    /\ now < MaxClock
    /\ now' = now + 1
    /\ UNCHANGED <<trades_db, logs_db, user_settings_db, wishlist_db, last, arg_trades, arg_values,
                   calls>>

\* GET /me/analytics/advanced calls calculate_portfolio_metrics; faults names
\* the places of the call that raise
\* before keeps the time and result of the call just before this one when that
\* was the same call (no engine call in between)
\* mutant: the result of the call before is kept and handed out again
MetricsCall_cached(user_id, days, faults) ==
    /\ last' = [op |-> "calculate_portfolio_metrics", user_id |-> user_id, days |-> days,
                faults |-> faults, at |-> now,
                out |-> IF /\ last.op = "calculate_portfolio_metrics"
                           /\ last.user_id = user_id /\ last.days = days
                           /\ last.faults = faults
                        THEN last.out
                        ELSE calculate_portfolio_metrics(trades_db, now, user_id, days, faults),
                before |-> IF /\ last.op = "calculate_portfolio_metrics"
                              /\ last.user_id = user_id /\ last.days = days
                              /\ last.faults = faults
                           THEN Some([at |-> last.at, out |-> last.out]) ELSE None]
    /\ UNCHANGED <<trades_db, logs_db, user_settings_db, wishlist_db, now, arg_trades,
                   arg_values, calls>>

MetricsCall(user_id, days, faults) ==
    /\ last' = [op |-> "calculate_portfolio_metrics", user_id |-> user_id, days |-> days,
                faults |-> faults, at |-> now,
                out |-> calculate_portfolio_metrics(trades_db, now, user_id, days, faults),
                before |-> IF /\ last.op = "calculate_portfolio_metrics"
                              /\ last.user_id = user_id /\ last.days = days
                              /\ last.faults = faults
                           THEN Some([at |-> last.at, out |-> last.out]) ELSE None]
    /\ UNCHANGED <<trades_db, logs_db, user_settings_db, wishlist_db, now, arg_trades,
                   arg_values, calls>>

PortfolioMetrics ==
    \E user_id \in {o.user_id : o \in Orders}, days \in 0..MaxDays :
        MetricsCall(user_id, days, {})

\* a call in which one place raises: by user 1, over the widest window, once
\* the clock has reached its last tick (every ledger gets there unchanged).
\* The call reads only, so it is taken after a step that is not such a call.
PortfolioMetricsFault ==
    \E fault \in FaultPoints :
        /\ now = MaxClock
        /\ ~(last.op = "calculate_portfolio_metrics")
        /\ MetricsCall(1, MaxDays, {fault})

Next ==
    \/ BuyOrder
    \/ SellOrder
    \/ ManualTrade
    \/ MorningBuyOrders
    \/ EveningSellOrders
    \/ Tick

Spec == Init /\ [][Next]_vars

\* the ledger as orders build it, and the analytics read from it
NextAnalytics ==
    \/ BuyOrder
    \/ SellOrder
    \/ Tick
    \/ PortfolioMetrics

SpecAnalytics == Init /\ [][NextAnalytics]_vars

\* the same ledger, read by calls that meet an exception
NextFaults ==
    \/ BuyOrder
    \/ SellOrder
    \/ Tick
    \/ PortfolioMetricsFault

SpecFaults == Init /\ [][NextFaults]_vars

\* the ledger read by calls that succeed and by calls that meet an exception
NextFrame ==
    \/ BuyOrder
    \/ SellOrder
    \/ Tick
    \/ PortfolioMetrics
    \/ PortfolioMetricsFault

SpecFrame == Init /\ [][NextFrame]_vars

\* Calls of calculate_portfolio_metrics that overlap.  A call takes two steps:
\* CallBegin reads the clock and filters the ledger into its local user_trades
\* (lines 16-23); CallReturn computes the metrics from its locals and reads the
\* clock again for the chart dates (lines 25-76).  Between the two steps the
\* other caller and the clock may move.  The ledger is written only while no
\* call is in flight.

\* mutant: end_date and user_trades are kept on the one AnalyticsService object
locals_of_self(c) == 1

\* where call c keeps end_date and user_trades: in its own frame
locals_of(c) == c

AllIdle == \A c \in Callers : calls[c].pc = "idle"

QuietBuyOrder == AllIdle /\ BuyOrder

QuietSellOrder == AllIdle /\ SellOrder

\* caller 1 asks for user 1, caller 2 for user 1 or user 2
CallBegin ==
    \E c \in Callers : \E user_id \in {1, c} :
        /\ calls[c].pc = "idle"
        /\ LET entered == [calls EXCEPT ![c] = [pc |-> "filtered", user_id |-> user_id,
                                                days |-> MaxDays, began |-> now]]
           IN  calls' = [k \in Callers |->
                            IF k = locals_of(c)
                            THEN [locals |-> [end_date |-> now,
                                              user_trades |-> user_trades(trades_db, now,
                                                                          user_id, MaxDays)]]
                                 @@ entered[k]
                            ELSE entered[k]]
        /\ UNCHANGED <<trades_db, logs_db, user_settings_db, wishlist_db, now, last,
                       arg_trades, arg_values>>

CallReturn ==
    \E c \in Callers :
        /\ calls[c].pc = "filtered"
        /\ LET trades == calls[locals_of(c)].locals.user_trades
               out == IF trades = <<>> THEN Return(_empty_metrics)
                      ELSE Return(PortfolioMetricsOf(trades, now, {}))
           IN  calls' = [calls EXCEPT ![c] = [pc |-> "done", user_id |-> calls[c].user_id,
                                              days |-> calls[c].days,
                                              began |-> calls[c].began,
                                              returned |-> now, out |-> out]
                                             @@ calls[c]]
        /\ UNCHANGED <<trades_db, logs_db, user_settings_db, wishlist_db, now, last,
                       arg_trades, arg_values>>

NextConcurrent ==
    \/ QuietBuyOrder
    \/ QuietSellOrder
    \/ Tick
    \/ CallBegin
    \/ CallReturn

SpecConcurrent == Init /\ [][NextConcurrent]_vars

\* Orders placed from two threads.  Thread 1 is the job thread of the
\* BackgroundScheduler (scheduler.py 40-74), which trades for the PAPER user 1;
\* thread 2 is the event loop, which runs the API handlers one at a time
\* (main.py 270-314, 897-903).  A switch of thread can fall between any two
\* statements of execute_buy_order and execute_sell_order, so each statement
\* that reads or writes the ledger is a step of its own.  The Trade object a
\* thread holds is the one in the ledger: it is kept by its place, at.
Scheduler == 1
EventLoop == 2

ThreadOrders(c) == IF c = Scheduler THEN {o \in Orders : o.user_id = 1} ELSE Orders

\* the trades that are constructed and not yet appended
Pending == Cardinality({c \in Callers : calls[c].pc = "constructed"})

\* trade = Trade(user_id, stock, action, quantity, price): the id is read off
\* the ledger here (trading.py 38 and 53, models.py 61)
ConstructTrade ==
    \E c \in Callers : \E o \in ThreadOrders(c), action \in {BUY, SELL} :
        /\ calls[c].pc = "idle"
        /\ Len(trades_db) + Pending < MaxTrades
        /\ calls' = [calls EXCEPT ![c] =
                        [pc |-> "constructed",
                         trade |-> Trade(trades_db, now, o.user_id, o.stock, action,
                                         o.quantity, o.price)]]
        /\ UNCHANGED <<trades_db, logs_db, user_settings_db, wishlist_db, now, last,
                       arg_trades, arg_values>>

\* trades_db.append(trade) (trading.py 39 and 54)
AppendTrade ==
    \E c \in Callers :
        /\ calls[c].pc = "constructed"
        /\ trades_db' = Append(trades_db, calls[c].trade)
        /\ calls' = [calls EXCEPT ![c] = [pc |-> "appended", trade |-> calls[c].trade,
                                          at |-> Len(trades_db) + 1]]
        /\ UNCHANGED <<logs_db, user_settings_db, wishlist_db, now, last, arg_trades, arg_values>>

\* buy_trades = [t for t in trades_db if ...] (trading.py 56)
SelectBuyTrades ==
    \E c \in Callers :
        /\ calls[c].pc = "appended"
        /\ calls[c].trade.action = SELL
        /\ calls' = [calls EXCEPT ![c] =
                        [pc |-> "selected", trade |-> calls[c].trade, at |-> calls[c].at,
                         buy_trades |-> buy_trades(trades_db, calls[c].trade.user_id,
                                                   calls[c].trade.stock)]]
        /\ UNCHANGED <<trades_db, logs_db, user_settings_db, wishlist_db, now, last,
                       arg_trades, arg_values>>

\* trade.result = pnl (trading.py 57-60)
SetResult ==
    \E c \in Callers :
        /\ calls[c].pc = "selected"
        /\ calls[c].buy_trades # <<>>
        /\ LET buy_price == calls[c].buy_trades[Len(calls[c].buy_trades)].price
               pnl == (calls[c].trade.price - buy_price) * calls[c].trade.quantity
           IN  /\ trades_db' = [trades_db EXCEPT ![calls[c].at].result = Some(pnl)]
               /\ calls' = [calls EXCEPT ![c] =
                               [pc |-> "priced", trade |-> calls[c].trade, pnl |-> Some(pnl)]]
        /\ UNCHANGED <<logs_db, user_settings_db, wishlist_db, now, last, arg_trades, arg_values>>

\* self.log_trade_activity(...); return True (trading.py 41-45, 62-72)
LogAndReturn ==
    \E c \in Callers :
        /\ \/ calls[c].pc = "appended" /\ calls[c].trade.action = BUY
           \/ calls[c].pc = "selected" /\ calls[c].buy_trades = <<>>
           \/ calls[c].pc = "priced"
        /\ LET trade == calls[c].trade
               said == [quantity |-> trade.quantity, stock |-> trade.stock,
                        price |-> trade.price]
               message == IF trade.action = BUY THEN [text |-> "BUY"] @@ said
                          ELSE [text |-> "SELL",
                                pnl |-> IF calls[c].pc = "priced" THEN calls[c].pnl ELSE None]
                               @@ said
           IN  logs_db' = log_trade_activity(logs_db, now, trade.user_id, message)
        /\ calls' = [calls EXCEPT ![c] = Idle]
        /\ last' = [op |-> "trade", ret |-> TRUE]
        /\ UNCHANGED <<trades_db, user_settings_db, wishlist_db, now, arg_trades, arg_values>>

\* a handler on the event loop reads the ledger (analytics_service.py 19-23,
\* trading.py 80) while the job thread is where it is
ReadLedger ==
    /\ calls[EventLoop].pc = "idle"
    /\ last' = [op |-> "read", trades |-> trades_db]
    /\ UNCHANGED <<trades_db, logs_db, user_settings_db, wishlist_db, now, arg_trades,
                   arg_values, calls>>

NextThreads ==
    \/ ConstructTrade
    \/ AppendTrade
    \/ SelectBuyTrades
    \/ SetResult
    \/ LogAndReturn
    \/ ReadLedger

SpecThreads == Init /\ [][NextThreads]_vars

\* the analytics helpers called on their own, on any list of trades
HelperResults == {None, Some(-20000), Some(-200), Some(-50), Some(100)}

ArgTrade(i, result, timestamp) ==
    [id |-> i, user_id |-> 1, stock |-> "ICICIBANK", action |-> SELL, quantity |-> 1,
     price |-> 870, result |-> result, timestamp |-> timestamp]

ArgLists ==
    UNION {{[i \in 1..n |-> ArgTrade(i, rs[i], ts[i])] :
                rs \in [1..n -> HelperResults], ts \in [1..n -> 0..MaxClock]} :
           n \in 0..MaxArgLen}

InitHelpers ==
    /\ trades_db = <<>>
    /\ logs_db = <<>>
    /\ user_settings_db = <<>>
    /\ wishlist_db = <<>>
    /\ now = 0
    /\ last = NoCall
    /\ arg_trades \in ArgLists
    /\ arg_values = <<>>
    /\ calls = NoCalls

PortfolioProgression ==
    /\ last' = [op |-> "_calculate_portfolio_progression",
                out |-> _calculate_portfolio_progression(arg_trades, FALSE)]
    /\ UNCHANGED <<trades_db, logs_db, user_settings_db, wishlist_db, now, arg_trades,
                   arg_values, calls>>

DailyReturns ==
    /\ last' = [op |-> "_calculate_daily_returns",
                out |-> _calculate_daily_returns(arg_trades, FALSE)]
    /\ UNCHANGED <<trades_db, logs_db, user_settings_db, wishlist_db, now, arg_trades,
                   arg_values, calls>>

\* max_drawdown as calculate_portfolio_metrics computes it: of the value series
\* of the trades
MaxDrawdown ==
    /\ LET portfolio_values == _calculate_portfolio_progression(arg_trades, FALSE)
       IN  last' = [op |-> "_calculate_max_drawdown",
                    portfolio_values |-> portfolio_values,
                    out |-> _calculate_max_drawdown(portfolio_values, FALSE)]
    /\ UNCHANGED <<trades_db, logs_db, user_settings_db, wishlist_db, now, arg_trades,
                   arg_values, calls>>

NextHelpers ==
    \/ PortfolioProgression
    \/ DailyReturns
    \/ MaxDrawdown

SpecHelpers == InitHelpers /\ [][NextHelpers]_vars

\* The body of calculate_portfolio_metrics below the filter, on any window of
\* trades of one user: sells that closed with a gain, a loss, nothing or no
\* result, a buy of 10 at 100 and the sell of 10 at 120 that closes it
WindowTrades ==
    {[action |-> SELL, quantity |-> 1, price |-> 120, result |-> r] :
        r \in {None, Some(0), Some(50), Some(-20), Some(30), Some(-10)}}
    \cup {[action |-> BUY, quantity |-> 10, price |-> 100, result |-> None],
          [action |-> SELL, quantity |-> 10, price |-> 120, result |-> Some(200)]}

WindowLists ==
    UNION {{[i \in 1..n |->
                [id |-> i, user_id |-> 1, stock |-> "ICICIBANK", action |-> w[i].action,
                 quantity |-> w[i].quantity, price |-> w[i].price, result |-> w[i].result,
                 timestamp |-> 0]] : w \in [1..n -> WindowTrades]} :
           n \in 0..MaxWindowLen}

InitWindow ==
    /\ trades_db = <<>>
    /\ logs_db = <<>>
    /\ user_settings_db = <<>>
    /\ wishlist_db = <<>>
    /\ now = 0
    /\ last = NoCall
    /\ arg_trades \in WindowLists
    /\ arg_values = <<>>
    /\ calls = NoCalls

\* lines 25-76 on the window user_trades = arg_trades
WindowMetrics ==
    /\ last' = [op |-> "window_metrics",
                out |-> IF arg_trades = <<>> THEN _empty_metrics
                        ELSE PortfolioMetricsOf(arg_trades, now, {})]
    /\ UNCHANGED <<trades_db, logs_db, user_settings_db, wishlist_db, now, arg_trades,
                   arg_values, calls>>

NextWindow ==
    \/ WindowMetrics

SpecWindow == InitWindow /\ [][NextWindow]_vars

\* _calculate_avg_trade_duration on any list of buys and sells of two stocks,
\* in any order of the list and of the timestamps
ScanTrades == Stocks \X {BUY, SELL} \X (0..MaxClock)

ScanList(w) ==
    [i \in 1..Len(w) |->
        [id |-> i, user_id |-> 1, stock |-> w[i][1], action |-> w[i][2], quantity |-> 1,
         price |-> 870, result |-> None, timestamp |-> w[i][3]]]

InitScan ==
    /\ trades_db = <<>>
    /\ logs_db = <<>>
    /\ user_settings_db = <<>>
    /\ wishlist_db = <<>>
    /\ now = 0
    /\ last = NoCall
    /\ \E n \in 0..MaxScanLen : \E w \in [1..n -> ScanTrades] : arg_trades = ScanList(w)
    /\ arg_values = <<>>
    /\ calls = NoCalls

AvgTradeDuration ==
    /\ last' = [op |-> "_calculate_avg_trade_duration",
                out |-> _calculate_avg_trade_duration(arg_trades, FALSE)]
    /\ UNCHANGED <<trades_db, logs_db, user_settings_db, wishlist_db, now, arg_trades,
                   arg_values, calls>>

NextScan ==
    \/ AvgTradeDuration

SpecScan == InitScan /\ [][NextScan]_vars

\* The risk helpers on any daily P&L: days that lost, days without a result
\* and days that won, in any order
ReturnValues == {-30, 0, 20}

InitReturns ==
    /\ trades_db = <<>>
    /\ logs_db = <<>>
    /\ user_settings_db = <<>>
    /\ wishlist_db = <<>>
    /\ now = 0
    /\ last = NoCall
    /\ arg_trades = <<>>
    /\ \E n \in 0..MaxReturns : arg_values \in [1..n -> ReturnValues]
    /\ calls = NoCalls

ValueAtRisk ==
    /\ last' = [op |-> "_calculate_var", out |-> _calculate_var(arg_values, FALSE)]
    /\ UNCHANGED <<trades_db, logs_db, user_settings_db, wishlist_db, now, arg_trades,
                   arg_values, calls>>

NextReturns ==
    \/ ValueAtRisk

SpecReturns == InitReturns /\ [][NextReturns]_vars

\* The Sharpe ratio on any short daily P&L
InitSharpe ==
    /\ trades_db = <<>>
    /\ logs_db = <<>>
    /\ user_settings_db = <<>>
    /\ wishlist_db = <<>>
    /\ now = 0
    /\ last = NoCall
    /\ arg_trades = <<>>
    /\ \E n \in 0..MaxSharpeLen : arg_values \in [1..n -> ReturnValues]
    /\ calls = NoCalls

SharpeRatio ==
    /\ last' = [op |-> "_calculate_sharpe_ratio",
                out |-> _calculate_sharpe_ratio(arg_values, FALSE)]
    /\ UNCHANGED <<trades_db, logs_db, user_settings_db, wishlist_db, now, arg_trades,
                   arg_values, calls>>

NextSharpe ==
    \/ SharpeRatio

SpecSharpe == InitSharpe /\ [][NextSharpe]_vars

\* The evening session after orders of any quantity.  /me/trade/buy and
\* /me/trade/sell take quantity as an int and hand it on as it is (main.py
\* 270-314), so the ledger can hold trades of a quantity below 0.
SignedOrders ==
    {[user_id |-> u, stock |-> s, price |-> 870, quantity |-> q] :
        u \in {1, 2}, s \in Stocks, q \in {-1, 1, 2}}

SignedBuyOrder ==
    \E o \in SignedOrders :
        /\ Len(trades_db) < MaxTrades
        /\ LET after == execute_buy_order(Stores, now, o.user_id, o.stock, o.price, o.quantity)
           IN  Commit(after, [op |-> "trade", ret |-> after.ret])

SignedSellOrder ==
    \E o \in SignedOrders :
        /\ Len(trades_db) < MaxTrades
        /\ LET after == execute_sell_order(Stores, now, o.user_id, o.stock, o.price, o.quantity)
           IN  Commit(after, [op |-> "trade", ret |-> after.ret])

\* execute_evening_sell_orders(user_id), the ledger it found kept in before
EveningSellOrdersCall ==
    \E user_id \in Users, current_price \in [Stocks -> Prices] :
        /\ Len(trades_db) <= MaxTrades
        /\ \A stock \in Stocks :
              LET buy == last_buy_trade(trades_db, user_id, stock)
              IN  IF buy = None
                  THEN current_price[stock] = CHOOSE p \in Prices : TRUE
                  ELSE current_price[stock] \in EveningPrices(buy[1].price)
        /\ LET after == execute_evening_sell_orders(Stores, now, user_settings_db, user_id,
                                                    current_price)
           IN  Commit(after, [op |-> "execute_evening_sell_orders", user_id |-> user_id,
                              before |-> trades_db, ret |-> after.ret])

NextEvening ==
    \/ SignedBuyOrder
    \/ SignedSellOrder
    \/ EveningSellOrdersCall

SpecEvening == Init /\ [][NextEvening]_vars

\* The manual trades of a user with settings (2) and of one without (3), the
\* request and the stores it found kept with the call
ManualTradeCall ==
    \E r \in ManualRequests, action \in {BUY, SELL} :
        \E quote \in get_current_stock_price(r.stock_symbol) :
            /\ r.price # None => quote = r.price[1]
            /\ IF get_user_settings(user_settings_db, r.user_id) = None
               THEN Len(logs_db) < MaxTrades
               ELSE Len(trades_db) < MaxTrades
            /\ LET after == execute_manual_trade(Stores, now, user_settings_db, r.user_id,
                                                 r.stock_symbol, action, r.quantity, r.price,
                                                 quote)
               IN  Commit(after, [op |-> "execute_manual_trade", request |-> r,
                                  action |-> action, before |-> Stores, ret |-> after.ret])

NextManual ==
    \/ ManualTradeCall

SpecManual == Init /\ [][NextManual]_vars

\* The wishlist: users 1 and 2 add any of the stocks, without target price or
\* notes, and remove by any id that was given out; the handlers run on the
\* event loop, one at a time (main.py 599-665)
WishlistStores == [wishlist |-> wishlist_db, logs |-> logs_db]

WishlistCommit(after, call) ==
    /\ wishlist_db' = after.wishlist
    /\ logs_db' = after.logs
    /\ last' = call
    /\ UNCHANGED <<trades_db, user_settings_db, now, arg_trades, arg_values, calls>>

AddToWishlist ==
    \E user_id \in {1, 2}, stock_symbol \in Stocks :
        /\ Len(logs_db) < MaxWishlistLogs
        /\ LET after == add_to_wishlist(WishlistStores, now, user_id, stock_symbol, None, None)
           IN  WishlistCommit(after, [op |-> "add_to_wishlist", user_id |-> user_id,
                                      stock_symbol |-> stock_symbol,
                                      before |-> WishlistStores, ret |-> after.ret])

RemoveFromWishlist ==
    \E user_id \in {1, 2}, wishlist_id \in 1..MaxWishlistLogs :
        /\ Len(logs_db) < MaxWishlistLogs
        /\ LET after == remove_from_wishlist(WishlistStores, now, user_id, wishlist_id)
           IN  WishlistCommit(after, [op |-> "remove_from_wishlist", user_id |-> user_id,
                                      wishlist_id |-> wishlist_id,
                                      before |-> WishlistStores, ret |-> after.ret])

UserWishlist ==
    \E user_id \in {1, 2} :
        /\ last' = [op |-> "get_user_wishlist", user_id |-> user_id,
                    ret |-> get_user_wishlist(wishlist_db, user_id)]
        /\ UNCHANGED <<trades_db, logs_db, user_settings_db, wishlist_db, now, arg_trades,
                       arg_values, calls>>

NextWishlist ==
    \/ AddToWishlist
    \/ RemoveFromWishlist
    \/ UserWishlist

SpecWishlist == Init /\ [][NextWishlist]_vars

\* The risk_metrics of calculate_portfolio_metrics on any daily P&L of days
\* that lost 3 and days that won 2; total_return is the sum of the results of
\* the window, which is the sum of its daily P&L
RiskValues == {-3, 2}

InitRisk ==
    /\ trades_db = <<>>
    /\ logs_db = <<>>
    /\ user_settings_db = <<>>
    /\ wishlist_db = <<>>
    /\ now = 0
    /\ last = NoCall
    /\ arg_trades = <<>>
    /\ \E n \in 1..MaxReturns : arg_values \in [1..n -> RiskValues]
    /\ calls = NoCalls

RiskMetrics ==
    /\ LET daily_returns == arg_values
           total_return == Sum(arg_values)
       IN  last' = [op |-> "risk_metrics",
                    total_return |-> total_return,
                    out |-> [value_at_risk |-> _calculate_var(daily_returns, FALSE),
                             beta |-> _calculate_beta(daily_returns, FALSE),
                             alpha |-> _calculate_alpha(daily_returns, total_return,
                                                        FALSE, FALSE)]]
    /\ UNCHANGED <<trades_db, logs_db, user_settings_db, wishlist_db, now, arg_trades,
                   arg_values, calls>>

NextRisk ==
    \/ RiskMetrics

SpecRisk == InitRisk /\ [][NextRisk]_vars

\* The chart of any value series, made at any reading of the clock: the series
\* starts at 10000 and goes on at the floor 0, below, at and above the start
SeriesValues == {0, 9950, 10000, 10100}

InitChart ==
    /\ trades_db = <<>>
    /\ logs_db = <<>>
    /\ user_settings_db = <<>>
    /\ wishlist_db = <<>>
    /\ now \in 0..MaxClock
    /\ last = NoCall
    /\ arg_trades = <<>>
    /\ \E n \in 0..MaxChartLen : \E rest \in [1..n -> SeriesValues] :
          arg_values = <<10000>> \o rest
    /\ calls = NoCalls

ChartData ==
    /\ last' = [op |-> "_prepare_chart_data",
                out |-> _prepare_chart_data(now, arg_values, FALSE)]
    /\ UNCHANGED <<trades_db, logs_db, user_settings_db, wishlist_db, now, arg_trades,
                   arg_values, calls>>

NextChart ==
    \/ ChartData

SpecChart == InitChart /\ [][NextChart]_vars

----------------------------------------------------------------------------
(* The sums of a window in binary64.  A result is a price difference times   *)
(* a quantity and carries paise, so the sums of results are rounded.  A      *)
(* float of any sign is kept as [neg, mag]: its sign and its magnitude, the  *)
(* magnitude as three limbs <<hi, mid, lo>> standing for                     *)
(* hi * 2^52 + mid * 2^26 + lo units of 2^-FracBits; 0 is kept with          *)
(* neg = FALSE.  Every float below is a multiple of that unit and smaller    *)
(* than 2^22, so an exact sum fits the limbs and one rounding to Precision   *)
(* bits gives the binary64 sum.                                              *)

FracBits == 56
Precision == 53

ZeroLimbs == <<0, 0, 0>>

\* the float of a whole number of rupees
Rupees(n) ==
    [neg |-> n < 0,
     mag |-> <<(IF n < 0 THEN -n ELSE n) * Pow2(FracBits - 2 * 26), 0, 0>>]

\* the positive float of mantissa hi * 2^26 + lo with its last place at 2^(place - FracBits)
Paise(hi, lo, place) ==
    LET low == lo * Pow2(place)
        high == hi * Pow2(place) + low \div Limb
    IN  [neg |-> FALSE, mag |-> <<high \div Limb, high % Limb, low % Limb>>]

Negated(x) == [neg |-> x.mag # ZeroLimbs /\ ~x.neg, mag |-> x.mag]

AddLimbs(a, b) ==
    LET lo == a[3] + b[3]
        mid == a[2] + b[2] + lo \div Limb
    IN  <<a[1] + b[1] + mid \div Limb, mid % Limb, lo % Limb>>

\* a - b for a >= b
SubLimbs(a, b) ==
    LET lo == a[3] - b[3]
        mid == a[2] - b[2] - (IF lo < 0 THEN 1 ELSE 0)
    IN  <<a[1] - b[1] - (IF mid < 0 THEN 1 ELSE 0),
          IF mid < 0 THEN mid + Limb ELSE mid,
          IF lo < 0 THEN lo + Limb ELSE lo>>

LimbsLess(a, b) ==
    \/ a[1] < b[1]
    \/ a[1] = b[1] /\ a[2] < b[2]
    \/ a[1] = b[1] /\ a[2] = b[2] /\ a[3] < b[3]

\* to Precision significant bits, to nearest, ties to even
RoundLimbs(m) ==
    LET dropped == IF m[1] = 0 THEN 0 ELSE 2 * 26 + BitLen(m[1]) - Precision
    IN  IF dropped <= 0 THEN m
        ELSE LET ulp == Pow2(dropped)
                 rest == m[3] % ulp
                 kept == <<m[1], m[2], m[3] - rest>>
                 odd == (m[3] \div ulp) % 2 = 1
             IN  IF 2 * rest > ulp \/ (2 * rest = ulp /\ odd)
                 THEN AddLimbs(kept, <<0, 0, ulp>>)
                 ELSE kept

\* x + y as a real number
ExactSum(x, y) ==
    IF x.neg = y.neg THEN [neg |-> x.neg, mag |-> AddLimbs(x.mag, y.mag)]
    ELSE IF x.mag = y.mag THEN [neg |-> FALSE, mag |-> ZeroLimbs]
    ELSE IF LimbsLess(x.mag, y.mag) THEN [neg |-> y.neg, mag |-> SubLimbs(y.mag, x.mag)]
    ELSE [neg |-> x.neg, mag |-> SubLimbs(x.mag, y.mag)]

\* x + y in binary64
float_add(x, y) ==
    LET sum == ExactSum(x, y)
    IN  [neg |-> sum.neg, mag |-> RoundLimbs(sum.mag)]

float_less(x, y) ==
    IF x.neg # y.neg THEN x.neg
    ELSE IF x.neg THEN LimbsLess(y.mag, x.mag)
    ELSE LimbsLess(x.mag, y.mag)

\* max(0, x)
float_max_0(x) == IF x.neg THEN Rupees(0) ELSE x

\* trade.result or 0
FloatOrZero(result) == IF result = None THEN Rupees(0) ELSE result[1]

\* sum(...): from 0, left to right
RECURSIVE float_sum(_, _)
float_sum(xs, start) ==
    IF xs = <<>> THEN start
    ELSE float_sum(Tail(xs), float_add(start, Head(xs)))

FloatResults(trades) == [i \in 1..Len(trades) |-> FloatOrZero(trades[i].result)]

\* mutant: the result of a trade replaces the P&L of its day
RECURSIVE FloatDailyPnl_last_trade(_, _)
FloatDailyPnl_last_trade(trades, daily_pnl) ==
    IF trades = <<>> THEN daily_pnl
    ELSE LET trade == Head(trades)
             date_key == Day(trade.timestamp)
             known == \E i \in 1..Len(daily_pnl) : daily_pnl[i].date_key = date_key
             started == IF known THEN daily_pnl
                        ELSE Append(daily_pnl, [date_key |-> date_key, pnl |-> Rupees(0)])
         IN  FloatDailyPnl_last_trade(Tail(trades),
                      [i \in 1..Len(started) |->
                          IF started[i].date_key = date_key
                          THEN [started[i] EXCEPT !.pnl = FloatOrZero(trade.result)]
                          ELSE started[i]])

\* the dict daily_pnl of _calculate_daily_returns, with float results
RECURSIVE FloatDailyPnl(_, _)
FloatDailyPnl(trades, daily_pnl) ==
    IF trades = <<>> THEN daily_pnl
    ELSE LET trade == Head(trades)
             date_key == Day(trade.timestamp)
             known == \E i \in 1..Len(daily_pnl) : daily_pnl[i].date_key = date_key
             started == IF known THEN daily_pnl
                        ELSE Append(daily_pnl, [date_key |-> date_key, pnl |-> Rupees(0)])
         IN  FloatDailyPnl(Tail(trades),
                      [i \in 1..Len(started) |->
                          IF started[i].date_key = date_key
                          THEN [started[i] EXCEPT
                                    !.pnl = float_add(@, FloatOrZero(trade.result))]
                          ELSE started[i]])

float_daily_returns(trades) ==
    LET daily_pnl == FloatDailyPnl(trades, <<>>)
        returns == [i \in 1..Len(daily_pnl) |-> daily_pnl[i].pnl]
    IN  IF returns # <<>> THEN returns ELSE <<Rupees(0)>>

\* mutant: the value is not held at 0
RECURSIVE FloatProgression_below_zero(_, _)
FloatProgression_below_zero(trades, portfolio_values) ==
    IF trades = <<>> THEN portfolio_values
    ELSE LET current_value == float_add(portfolio_values[Len(portfolio_values)],
                                        FloatOrZero(Head(trades).result))
         IN  FloatProgression_below_zero(Tail(trades),
                                         Append(portfolio_values, current_value))

\* the loop of _calculate_portfolio_progression, with float results
RECURSIVE FloatProgression(_, _)
FloatProgression(trades, portfolio_values) ==
    IF trades = <<>> THEN portfolio_values
    ELSE LET current_value == float_add(portfolio_values[Len(portfolio_values)],
                                        FloatOrZero(Head(trades).result))
         IN  FloatProgression(Tail(trades),
                              Append(portfolio_values, float_max_0(current_value)))

float_portfolio_progression(trades) ==
    FloatProgression(SortedByTimestamp(trades), <<Rupees(10000)>>)

\* the sums and counts of calculate_portfolio_metrics, with float results
float_portfolio_metrics(trades) ==
    LET daily_returns == float_daily_returns(trades)
        portfolio_values == float_portfolio_progression(trades)
        results == FloatResults(trades)
    IN  [daily_returns |-> daily_returns,
         portfolio_values |-> portfolio_values,
         portfolio_value |-> portfolio_values[Len(portfolio_values)],
         total_return |-> float_sum(results, Rupees(0)),
         total_trades |-> Len(trades),
         winning_trades |-> Len(SelectSeq(results, LAMBDA r : float_less(Rupees(0), r))),
         losing_trades |-> Len(SelectSeq(results, LAMBDA r : float_less(r, Rupees(0))))]

\* windows of sells whose results are whole rupees of either sign or carry paise:
\* 0.1, 0.2, 0.3 and -0.3

SumsResults ==
    {None, Some(Rupees(-20000)), Some(Rupees(50)), Some(Paise(107374182, 26843546, 0)),
     Some(Paise(107374182, 26843546, 1)), Some(Paise(80530636, 53687091, 2)),
     Some(Negated(Paise(80530636, 53687091, 2)))}

InitSums ==
    /\ trades_db = <<>>
    /\ logs_db = <<>>
    /\ user_settings_db = <<>>
    /\ wishlist_db = <<>>
    /\ now = 0
    /\ last = NoCall
    /\ \E n \in 1..MaxSumsLen :
          \E rs \in [1..n -> SumsResults], ts \in [1..n -> 0..MaxClock] :
              arg_trades = [i \in 1..n |-> ArgTrade(i, rs[i], ts[i])]
    /\ arg_values = <<>>
    /\ calls = NoCalls

WindowSums ==
    /\ last' = [op |-> "window_sums", out |-> float_portfolio_metrics(arg_trades)]
    /\ UNCHANGED <<trades_db, logs_db, user_settings_db, wishlist_db, now, arg_trades,
                   arg_values, calls>>

NextSums == WindowSums

SpecSums == InitSums /\ [][NextSums]_vars

----------------------------------------------------------------------------
(* Properties of the trading engine (specification Spec) *)

SameBook(a, b) == a.user_id = b.user_id /\ a.stock = b.stock

\* the positions before i of the buys of trade i's user and stock
PriorBuys(db, i) == {j \in 1..(i - 1) : db[j].action = BUY /\ SameBook(db[j], db[i])}

Greatest(S) == CHOOSE j \in S : \A k \in S : k <= j

\* C1: every sell that has a buy of its user and stock before it in the ledger
\* carries result = (sell price - price of the latest such buy) * sell quantity,
\* however much of that buy earlier sells consumed; buys of other users and of
\* other stocks play no part.
C1_SellPricedAgainstLastBuy ==
    \A i \in 1..Len(trades_db) :
        (trades_db[i].action = SELL /\ PriorBuys(trades_db, i) # {}) =>
            trades_db[i].result =
                Some((trades_db[i].price - trades_db[Greatest(PriorBuys(trades_db, i))].price)
                        * trades_db[i].quantity)

\* a buy, then two sells of the same user and stock with no buy in between: the
\* first sell takes all the buy held, the second is still priced against it
C1_Witness ==
    \E b \in 1..Len(trades_db), i \in 1..Len(trades_db), j \in 1..Len(trades_db) :
        /\ b < i /\ i < j
        /\ trades_db[b].action = BUY
        /\ trades_db[i].action = SELL /\ SameBook(trades_db[i], trades_db[b])
        /\ trades_db[j].action = SELL /\ SameBook(trades_db[j], trades_db[b])
        /\ PriorBuys(trades_db, j) = {b}
        /\ trades_db[i].quantity >= trades_db[b].quantity
        /\ trades_db[j].price # trades_db[b].price
        /\ trades_db[j].result =
              Some((trades_db[j].price - trades_db[b].price) * trades_db[j].quantity)

\* C2: after any sequence of engine calls every buy in the ledger has a null result.
C2_BuyHasNoResult ==
    \A i \in 1..Len(trades_db) : trades_db[i].action = BUY => trades_db[i].result = None

\* a buy that a later sell was priced against, the sell carrying the result
C2_Witness ==
    \E i \in 1..Len(trades_db), j \in 1..Len(trades_db) :
        /\ i < j
        /\ trades_db[i].action = BUY /\ trades_db[i].result = None
        /\ trades_db[j].action = SELL /\ SameBook(trades_db[j], trades_db[i])
        /\ trades_db[j].result # None

\* C3: a sell of a (user, stock) with no buy earlier in the ledger is appended
\* with a null result and the call returns success, whatever other users bought
\* and whatever the user bought of other stocks; the only engine call that
\* returns failure is the manual trade of a user without settings, which appends
\* no trade.
C3_SellWithoutBuy ==
    [][/\ \A i \in (Len(trades_db) + 1)..Len(trades_db') :
            (trades_db'[i].action = SELL /\ PriorBuys(trades_db', i) = {}) =>
                /\ trades_db'[i].result = None
                /\ last'.op = "trade" /\ last'.ret = TRUE
       /\ (logs_db' # logs_db /\ last'.op = "trade" /\ last'.ret = FALSE) =>
            /\ trades_db' = trades_db
            /\ Len(logs_db') = Len(logs_db) + 1
            /\ logs_db'[Len(logs_db')].message.text = "Failed to execute"
            /\ get_user_settings(user_settings_db, logs_db'[Len(logs_db')].user_id) = None
      ]_vars

\* the sell just made has no result although another user bought the same
\* stock, or the same user another stock, before it
C3_Witness ==
    /\ last.op = "trade" /\ last.ret = TRUE
    /\ trades_db # <<>>
    /\ LET i == Len(trades_db)
       IN  /\ trades_db[i].action = SELL
           /\ trades_db[i].result = None
           /\ \E j \in 1..(i - 1) :
                /\ trades_db[j].action = BUY
                /\ ~SameBook(trades_db[j], trades_db[i])
                /\ \/ trades_db[j].stock = trades_db[i].stock
                   \/ trades_db[j].user_id = trades_db[i].user_id

\* the quantity the user bought, less the quantity the user sold, of the stock
NetOf(user_id, stock) ==
    Sum([i \in 1..Len(trades_db) |->
            IF trades_db[i].user_id = user_id /\ trades_db[i].stock = stock
            THEN IF trades_db[i].action = BUY THEN trades_db[i].quantity
                 ELSE 0 - trades_db[i].quantity
            ELSE 0])

\* C4: get_user_positions(user) holds exactly the stocks whose net quantity over
\* the whole ledger (bought less sold, by that user) is strictly positive, each
\* once and with that net quantity.
C4_OpenPositions ==
    \A user_id \in Users :
        LET positions == get_user_positions(trades_db, user_id)
            open == {s \in Stocks : NetOf(user_id, s) > 0}
        IN  /\ {positions[k] : k \in 1..Len(positions)} = {<<s, NetOf(user_id, s)>> : s \in open}
            /\ Len(positions) = Cardinality(open)

\* a user holds part of what was bought of one stock, is at or below zero in
\* another, and another user has traded
C4_Witness ==
    \E user_id \in Users, held \in Stocks, closed \in Stocks :
        /\ get_user_positions(trades_db, user_id) = <<<<held, NetOf(user_id, held)>>>>
        /\ \E i \in 1..Len(trades_db) :
              /\ trades_db[i].user_id = user_id /\ trades_db[i].stock = held
              /\ trades_db[i].action = BUY /\ trades_db[i].quantity > NetOf(user_id, held)
        /\ \E i \in 1..Len(trades_db) :
              /\ trades_db[i].stock = closed
              /\ \/ trades_db[i].user_id # user_id
                 \/ (closed # held /\ NetOf(user_id, closed) <= 0)

----------------------------------------------------------------------------
(* Properties of the analytics (specifications SpecAnalytics, SpecFaults,    *)
(* SpecHelpers)                                                              *)

MetricsCalled == last.op = "calculate_portfolio_metrics"

\* trade i of the ledger is one a call (user_id, days) made at tick `at` is asked about
InScope(i, user_id, days, at) ==
    /\ trades_db[i].user_id = user_id
    /\ at - days * TicksPerDay <= trades_db[i].timestamp
    /\ trades_db[i].timestamp <= at

Selected(user_id, days, at) == {i \in 1..Len(trades_db) : InScope(i, user_id, days, at)}

One == [n |-> 1, d |-> 1, r |-> 1]

\* C6: no call of calculate_portfolio_metrics ends in an exception.  When the
\* orchestrator itself meets a fault the result is the object returned for an
\* empty window; when a helper meets one, that helper's own default shows in
\* the result and the rest of the call goes on (total_trades is still counted).
C6_NoExceptionEscapes ==
    MetricsCalled =>
        LET m == last.out.value
            window == Selected(last.user_id, last.days, last.at)
            helper(f) == f \in last.faults /\ window # {}
        IN  /\ last.out.kind = "return"
            /\ "orchestrator" \in last.faults =>
                  m = calculate_portfolio_metrics(<<>>, last.at, last.user_id, last.days, {}).value
            /\ (last.faults # {"orchestrator"} /\ window # {}) =>
                  m.total_trades = Cardinality(window)
            /\ helper("daily_returns") => (m.sharpe_ratio = Zero /\ m.volatility = Zero)
            /\ helper("portfolio_progression") =>
                  (m.portfolio_value = 10000 /\ Len(m.performance_chart_data) = 1)
            /\ helper("sharpe_ratio") => m.sharpe_ratio = Zero
            /\ helper("max_drawdown") => m.max_drawdown = Zero
            /\ helper("volatility") => m.volatility = Zero
            /\ helper("avg_trade_duration") => m.avg_trade_duration = Zero
            /\ helper("var") => m.risk_metrics.value_at_risk = Zero
            /\ helper("beta") => m.risk_metrics.beta = One
            /\ helper("alpha") => m.risk_metrics.alpha = ZeroSum
            /\ helper("chart_data") => m.performance_chart_data = <<>>

\* the orchestrator met a fault while the user had trades in the window, and
\* the call returned the all-zero object
C6_Witness ==
    /\ MetricsCalled
    /\ last.faults = {"orchestrator"}
    /\ Selected(last.user_id, last.days, last.at) # {}
    /\ last.out.kind = "return"
    /\ last.out.value.total_trades = 0

\* C7: a call whose window holds no trade of the user returns the object with
\* every number 0 (portfolio_value and profit_factor too), value_at_risk, beta
\* and alpha 0, and no chart entry.
C7_EmptyWindow ==
    (MetricsCalled /\ Selected(last.user_id, last.days, last.at) = {}) =>
        LET m == last.out.value
        IN  /\ last.out.kind = "return"
            /\ m.portfolio_value = 0 /\ m.total_return = 0 /\ m.return_percentage = Zero
            /\ m.sharpe_ratio = Zero /\ m.max_drawdown = Zero /\ m.volatility = Zero
            /\ m.win_rate = Zero /\ m.avg_trade_duration = Zero /\ m.total_trades = 0
            /\ m.winning_trades = 0 /\ m.losing_trades = 0 /\ m.avg_win = Zero
            /\ m.avg_loss = Zero /\ m.profit_factor = Zero
            /\ m.risk_metrics.value_at_risk = Zero /\ m.risk_metrics.beta = Zero
            /\ m.risk_metrics.alpha = ZeroSum
            /\ m.performance_chart_data = <<>>

\* the user has traded, but before the window of the call
C7_Witness ==
    /\ MetricsCalled
    /\ Selected(last.user_id, last.days, last.at) = {}
    /\ \E i \in 1..Len(trades_db) : trades_db[i].user_id = last.user_id
    /\ last.out.value.performance_chart_data = <<>>

\* C8: the result of a call is the result of the same call on the ledger that
\* holds only the user's trades inside [now - days, now]; and it is the result
\* on every shorter ledger that the present one extends by trades of other
\* users or trades outside the window only.
C8_OnlyOwnTradesInWindow ==
    MetricsCalled =>
        LET rerun(db) == calculate_portfolio_metrics(db, last.at, last.user_id, last.days,
                                                     last.faults)
            scope(t) == /\ t.user_id = last.user_id
                        /\ last.at - last.days * TicksPerDay <= t.timestamp
                        /\ t.timestamp <= last.at
        IN  /\ last.out = rerun(SelectSeq(trades_db, scope))
            /\ \A k \in 0..Len(trades_db) :
                  (\A i \in (k + 1)..Len(trades_db) : ~scope(trades_db[i])) =>
                      last.out = rerun(SubSeq(trades_db, 1, k))

\* the call counted trades of its user although the ledger also holds a trade
\* of that user before the window and ends with a trade of another user
C8_Witness ==
    /\ MetricsCalled
    /\ last.out.value.total_trades > 0
    /\ trades_db[Len(trades_db)].user_id # last.user_id
    /\ \E i \in 1..Len(trades_db) :
          /\ trades_db[i].user_id = last.user_id
          /\ ~InScope(i, last.user_id, last.days, last.at)

ProgressionCalled == last.op = "_calculate_portfolio_progression"

\* the orders in which 1..n can be taken
Orderings(n) == {p \in [1..n -> 1..n] : \A i \in 1..n, j \in 1..n : i # j => p[i] # p[j]}

\* C9: for n trades the value series has n + 1 elements, starts at 10000, and
\* each next element is max(0, previous + result of the next trade in an
\* ascending-timestamp order, null counting 0); no element is negative.
C9_ValueSeries ==
    ProgressionCalled =>
        LET n == Len(arg_trades)
            series == last.out
        IN  /\ Len(series) = n + 1
            /\ series[1] = 10000
            /\ \A k \in 1..(n + 1) : series[k] >= 0
            /\ \E p \in Orderings(n) :
                  /\ \A k \in 1..(n - 1) :
                        arg_trades[p[k]].timestamp <= arg_trades[p[k + 1]].timestamp
                  /\ \A k \in 1..n :
                        series[k + 1] = Max(0, series[k] + OrZero(arg_trades[p[k]].result))

\* three trades handed over out of timestamp order, the series falls to the
\* floor 0 and grows again from there
C9_Witness ==
    /\ ProgressionCalled
    /\ Len(arg_trades) = 3
    /\ \E i \in 1..2 : arg_trades[i].timestamp > arg_trades[i + 1].timestamp
    /\ \E k \in 2..3 : last.out[k] = 0 /\ last.out[k + 1] > 0

\* C10 as stated: a call that directly follows the same call (same user, same
\* window, no engine call in between) returns the same object.
C10_SameOutputTwice ==
    (MetricsCalled /\ last.before # None) => last.out = last.before[1].out

\* C10 as amended: it returns the same object when both calls fall on the same
\* calendar day and the same trades lie in the window of both.
C10_SameOutputSameDay ==
    (/\ MetricsCalled
     /\ last.before # None
     /\ Day(last.at) = Day(last.before[1].at)
     /\ Selected(last.user_id, last.days, last.at)
            = Selected(last.user_id, last.days, last.before[1].at))
        => last.out = last.before[1].out

\* two calls at different times of one day, with the same trades in the window
C10_Witness ==
    /\ MetricsCalled
    /\ last.before # None
    /\ last.before[1].at < last.at
    /\ Day(last.at) = Day(last.before[1].at)
    /\ Selected(last.user_id, last.days, last.at) # {}
    /\ Selected(last.user_id, last.days, last.at)
            = Selected(last.user_id, last.days, last.before[1].at)
    /\ last.out = last.before[1].out

----------------------------------------------------------------------------
(* Frame and concurrency of the analytics (SpecFrame, SpecConcurrent)        *)

\* C11: a step that is a call of calculate_portfolio_metrics, whether it
\* succeeds, finds an empty window or meets an exception, leaves the ledger,
\* the log and the settings as they were, and what it returns is what the call
\* computes from the ledger as it stands: nothing of an earlier call is in it.
C11_LedgerUntouched ==
    [][last'.op = "calculate_portfolio_metrics" =>
          /\ trades_db' = trades_db
          /\ logs_db' = logs_db
          /\ user_settings_db' = user_settings_db
          /\ last'.out = calculate_portfolio_metrics(trades_db', last'.at, last'.user_id,
                                                     last'.days, last'.faults)]_vars

\* the same call made twice on a ledger that holds trades returned two
\* different results: the second was computed anew
C11_Witness ==
    /\ MetricsCalled
    /\ trades_db # <<>>
    /\ last.before # None
    /\ last.out # last.before[1].out
    /\ last.out.value.total_trades > 0

\* C12: whatever the interleaving of two calls, a call that has returned has
\* returned what a call running alone on the same ledger returns for the same
\* user and window and the same two readings of the clock.
C12_AsIfAlone ==
    \A c \in Callers :
        calls[c].pc = "done" =>
            LET mine == SelectSeq(trades_db,
                                  LAMBDA t : /\ t.user_id = calls[c].user_id
                                             /\ calls[c].began - calls[c].days * TicksPerDay
                                                    <= t.timestamp
                                             /\ t.timestamp <= calls[c].began)
            IN  calls[c].out = IF mine = <<>> THEN Return(_empty_metrics)
                               ELSE Return(PortfolioMetricsOf(mine, calls[c].returned, {}))

\* caller 2 filtered the ledger for another user no earlier than caller 1
\* filtered it and no later than caller 1 returned, and both users have trades
\* in their windows
C12_Witness ==
    /\ calls[1].pc = "done" /\ calls[2].pc = "done"
    /\ calls[2].user_id # calls[1].user_id
    /\ calls[1].began <= calls[2].began /\ calls[2].began <= calls[1].returned
    /\ calls[1].out.value.total_trades > 0
    /\ calls[2].out.value.total_trades > 0
    /\ calls[1].out # calls[2].out

----------------------------------------------------------------------------
(* The figures of a window (SpecWindow) *)

WindowMeasured == last.op = "window_metrics"

\* the results in the window, in list order, null kept as null
WindowResults == [i \in 1..Len(arg_trades) |-> arg_trades[i].result]

Gains == {i \in 1..Len(arg_trades) : WindowResults[i] # None /\ WindowResults[i][1] > 0}
Losses == {i \in 1..Len(arg_trades) : WindowResults[i] # None /\ WindowResults[i][1] < 0}

RECURSIVE SumOver(_, _)
SumOver(f, S) ==
    IF S = {} THEN 0 ELSE LET i == CHOOSE k \in S : TRUE IN f[i] + SumOver(f, S \ {i})

\* the rational q (a record [n, d, r] with r = 1 and d > 0) is num / den
IsRatio(q, num, den) == q.r = 1 /\ q.d > 0 /\ q.n * den = num * q.d

\* C13: for a non-empty window win_rate is 100 times the number of trades with
\* a result above 0 over the number of all trades of the window; a trade with a
\* null or zero result is counted neither as winning nor as losing; results
\* 50, -20, 30, -10 give 50.
C13_WinRate ==
    (WindowMeasured /\ arg_trades # <<>>) =>
        /\ last.out.total_trades = Len(arg_trades)
        /\ last.out.winning_trades = Cardinality(Gains)
        /\ last.out.losing_trades = Cardinality(Losses)
        /\ IsRatio(last.out.win_rate, 100 * Cardinality(Gains), Len(arg_trades))
        /\ WindowResults = <<Some(50), Some(-20), Some(30), Some(-10)>> =>
              last.out.win_rate = [n |-> 50, d |-> 1, r |-> 1]

\* two of the four trades won
C13_Witness ==
    /\ WindowMeasured
    /\ WindowResults = <<Some(50), Some(-20), Some(30), Some(-10)>>
    /\ last.out.win_rate = [n |-> 50, d |-> 1, r |-> 1]
    /\ last.out.winning_trades = 2 /\ last.out.losing_trades = 2

\* C14: profit_factor is the sum of the positive results over the absolute sum
\* of the negative ones when the window has a losing trade, +infinity when it
\* has a winning trade and no losing one, and 0 when there are no trades.
C14_ProfitFactor ==
    WindowMeasured =>
        LET wins == SumOver([i \in 1..Len(arg_trades) |-> OrZero(WindowResults[i])], Gains)
            lost == SumOver([i \in 1..Len(arg_trades) |-> OrZero(WindowResults[i])], Losses)
        IN  /\ Losses # {} => IsRatio(last.out.profit_factor, wins, 0 - lost)
            /\ (Losses = {} /\ Gains # {}) =>
                  last.out.profit_factor = [n |-> 1, d |-> 0, r |-> 1]
            /\ arg_trades = <<>> => last.out.profit_factor = [n |-> 0, d |-> 1, r |-> 1]
            /\ WindowResults = <<Some(50), Some(-20), Some(30), Some(-10)>> =>
                  last.out.profit_factor = [n |-> 8, d |-> 3, r |-> 1]

\* wins of 80 against losses of 30
C14_Witness ==
    /\ WindowMeasured
    /\ WindowResults = <<Some(50), Some(30), Some(-20), Some(-10)>>
    /\ last.out.profit_factor = [n |-> 8, d |-> 3, r |-> 1]

----------------------------------------------------------------------------
(* The duration scan (SpecScan) *)

\* trade i comes before trade j in ascending timestamp order (list order
\* among equal timestamps)
ComesBefore(i, j) ==
    \/ arg_trades[i].timestamp < arg_trades[j].timestamp
    \/ arg_trades[i].timestamp = arg_trades[j].timestamp /\ i < j

\* the trades of the stock of trade j that come before it
EarlierOfStock(j) ==
    {i \in 1..Len(arg_trades) : arg_trades[i].stock = arg_trades[j].stock /\ ComesBefore(i, j)}

\* the one of them that comes last
LatestOfStock(j) ==
    CHOOSE i \in EarlierOfStock(j) : \A k \in EarlierOfStock(j) : k = i \/ ComesBefore(k, i)

\* the sells that close a buy: the trade of their stock just before them is a buy
ClosingSells ==
    {j \in 1..Len(arg_trades) :
        /\ arg_trades[j].action = "sell"
        /\ EarlierOfStock(j) # {}
        /\ arg_trades[LatestOfStock(j)].action = "buy"}

\* C16: avg_trade_duration is the mean, in hours, of sell time - buy time over
\* the sells whose stock was last traded, in ascending timestamp order, by a
\* buy (so a buy is closed by one sell at most and a later pair is measured from
\* its own buy); it is 0 with fewer than 2 trades or without such a sell.
C16_AvgTradeDuration ==
    last.op = "_calculate_avg_trade_duration" =>
        LET ticks == [j \in 1..Len(arg_trades) |->
                        IF j \in ClosingSells
                        THEN arg_trades[j].timestamp - arg_trades[LatestOfStock(j)].timestamp
                        ELSE 0]
        IN  /\ ClosingSells # {} =>
                  IsRatio(last.out, HoursPerTick * SumOver(ticks, ClosingSells),
                          Cardinality(ClosingSells))
            /\ ClosingSells = {} => last.out = [n |-> 0, d |-> 1, r |-> 1]
            /\ Len(arg_trades) < 2 => last.out = [n |-> 0, d |-> 1, r |-> 1]

\* buy and sell at once, then a second buy a tick later and its sell a tick
\* after that: durations 0 and one tick, not two ticks from the first buy
C16_Witness ==
    /\ last.op = "_calculate_avg_trade_duration"
    /\ Len(arg_trades) = 4
    /\ \A i \in 1..4 : arg_trades[i].stock = "ICICIBANK"
    /\ [i \in 1..4 |-> arg_trades[i].action] = <<"buy", "sell", "buy", "sell">>
    /\ [i \in 1..4 |-> arg_trades[i].timestamp] = <<0, 0, 1, 2>>
    /\ IsRatio(last.out, HoursPerTick, 2)

----------------------------------------------------------------------------
(* The daily P&L (SpecHelpers) *)

\* the calendar days on which the trades handed over fall
DaysTraded == {arg_trades[i].timestamp \div TicksPerDay : i \in 1..Len(arg_trades)}

TradesOfDay(day) ==
    {i \in 1..Len(arg_trades) : arg_trades[i].timestamp \div TicksPerDay = day}

\* the place of the first trade of a day in the list
FirstSeenAt(day) == CHOOSE i \in TradesOfDay(day) : \A k \in TradesOfDay(day) : i <= k

\* C17: the daily P&L has one entry per calendar day on which a trade falls,
\* the days taken in the order of their first trade in the list, and the entry
\* of a day is the sum of the results of its trades, null as 0; for no trades
\* it is <<0>>.
C17_DailyPnl ==
    last.op = "_calculate_daily_returns" =>
        /\ arg_trades = <<>> => last.out = <<0>>
        /\ arg_trades # <<>> =>
              /\ Len(last.out) = Cardinality(DaysTraded)
              /\ \A day \in DaysTraded :
                    LET place == 1 + Cardinality({other \in DaysTraded :
                                                    FirstSeenAt(other) < FirstSeenAt(day)})
                    IN  last.out[place] =
                            SumOver([i \in 1..Len(arg_trades) |-> OrZero(arg_trades[i].result)],
                                    TradesOfDay(day))

\* the first trade is of the later day; the earlier day has two trades, one
\* with a result and one without
C17_Witness ==
    /\ last.op = "_calculate_daily_returns"
    /\ Len(arg_trades) = 3
    /\ arg_trades[1].timestamp \div TicksPerDay > arg_trades[2].timestamp \div TicksPerDay
    /\ arg_trades[3].timestamp \div TicksPerDay = arg_trades[2].timestamp \div TicksPerDay
    /\ arg_trades[1].result = Some(100)
    /\ arg_trades[2].result = Some(-50) /\ arg_trades[3].result = None
    /\ last.out = <<100, -50>>

----------------------------------------------------------------------------
(* The risk helpers (SpecReturns, SpecSharpe) *)

\* the k-th smallest of the numbers handed over, k counted from 1
Smallest(k) ==
    CHOOSE v \in {arg_values[i] : i \in 1..Len(arg_values)} :
        /\ Cardinality({i \in 1..Len(arg_values) : arg_values[i] < v}) < k
        /\ k <= Cardinality({i \in 1..Len(arg_values) : arg_values[i] <= v})

\* C18: value_at_risk is 0 for a daily P&L of fewer than 10 entries; for n >= 10
\* entries it is the 5th percentile by linear interpolation, the value at the
\* place (n - 1) * 5 / 100 between the sorted entries, which for 10 to 20
\* entries lies between the smallest and the second smallest.
C18_ValueAtRisk ==
    last.op = "_calculate_var" =>
        LET n == Len(arg_values)
            below == ((n - 1) * 5) \div 100
            part == ((n - 1) * 5) % 100
        IN  /\ n < 10 => last.out = [n |-> 0, d |-> 1, r |-> 1]
            /\ n >= 10 =>
                  IF part = 0 THEN IsRatio(last.out, Smallest(below + 1), 1)
                  ELSE IsRatio(last.out,
                               100 * Smallest(below + 1)
                                 + part * (Smallest(below + 2) - Smallest(below + 1)),
                               100)
            /\ (10 <= n /\ n <= 20) =>
                  /\ Smallest(1) * last.out.d <= last.out.n
                  /\ last.out.n <= Smallest(2) * last.out.d

\* ten entries handed over unsorted, the smallest below the second smallest,
\* and the value strictly between the two
C18_Witness ==
    /\ last.op = "_calculate_var"
    /\ Len(arg_values) = 10
    /\ arg_values[1] > arg_values[10]
    /\ Smallest(1) < Smallest(2)
    /\ Smallest(1) * last.out.d < last.out.n
    /\ last.out.n < Smallest(2) * last.out.d

\* C19: sharpe_ratio is 0 whenever the daily P&L has fewer than 2 entries or
\* all its entries are equal, the standard deviation of the excess returns
\* being 0 then.
C19_SharpeZero ==
    (/\ last.op = "_calculate_sharpe_ratio"
     /\ \/ Len(arg_values) < 2
        \/ \A i \in 1..Len(arg_values) : arg_values[i] = arg_values[1])
        => last.out = Zero

----------------------------------------------------------------------------
(* The drawdown of the value series (SpecHelpers) *)

DrawdownCalled == last.op = "_calculate_max_drawdown"

\* the largest of the first i values of the series measured
PeakAt(i) ==
    CHOOSE v \in {last.portfolio_values[k] : k \in 1..i} :
        \A k \in 1..i : last.portfolio_values[k] <= v

\* C20: max_drawdown is the largest, over the values after the first, of
\* (peak - value) / peak * 100 with peak the largest value up to and including
\* that one; it is 0 for a series of fewer than 2 values and for a series that
\* never falls; no running peak is 0; the result lies between 0 and 100.
C20_MaxDrawdown ==
    DrawdownCalled =>
        LET values == last.portfolio_values
            n == Len(values)
            dd == last.out
        IN  /\ \A i \in 1..n : PeakAt(i) > 0
            /\ n < 2 => dd = Zero
            /\ (\A i \in 1..(n - 1) : values[i] <= values[i + 1]) => dd = Zero
            /\ n >= 2 =>
                  /\ \E i \in 2..n : IsRatio(dd, (PeakAt(i) - values[i]) * 100, PeakAt(i))
                  /\ \A i \in 2..n :
                        (PeakAt(i) - values[i]) * 100 * dd.d <= dd.n * PeakAt(i)
            /\ dd.r = 1 /\ dd.d > 0
            /\ 0 <= dd.n /\ dd.n <= 100 * dd.d

\* the series falls, rises to a new peak and falls further below that peak
\* than it fell below the first
C20_Witness ==
    /\ DrawdownCalled
    /\ Len(last.portfolio_values) = 4
    /\ last.portfolio_values[2] < last.portfolio_values[1]
    /\ last.portfolio_values[3] > last.portfolio_values[1]
    /\ last.portfolio_values[4] < last.portfolio_values[2]
    /\ IsRatio(last.out, (last.portfolio_values[3] - last.portfolio_values[4]) * 100,
               last.portfolio_values[3])

----------------------------------------------------------------------------
(* beta and alpha (SpecRisk) *)

RiskMeasured == last.op = "risk_metrics"

\* the real (n / d) * sqrt(r) with n >= 0 is (num / den) * sqrt(under)
IsRoot(q, num, den, under) ==
    /\ q.d > 0 /\ q.n >= 0
    /\ q.n * q.n * q.r * den * den = num * num * under * q.d * q.d

\* C21: beta is 1 for a daily P&L of fewer than 10 entries and otherwise
\* 0.7 * stdev(daily P&L) / 0.15, that is 14 / (3 * len) times the root of
\* len * (sum of squares) - (sum)^2; alpha of the same call is
\* 25200 * total_return / len - 5 - 7 * beta with that beta.
C21_BetaAndAlpha ==
    RiskMeasured =>
        LET len == Len(arg_values)
            beta == last.out.beta
            alpha == last.out.alpha
            squares == SumOver([i \in 1..len |-> arg_values[i] * arg_values[i]], 1..len)
            sum == SumOver(arg_values, 1..len)
        IN  /\ len < 10 => beta = [n |-> 1, d |-> 1, r |-> 1]
            /\ len >= 10 => IsRoot(beta, 14, 3 * len, len * squares - sum * sum)
            /\ IF beta.r = 1 \/ beta.n = 0
               THEN /\ alpha.surd.n = 0
                    /\ IsRatio(alpha.rat,
                               (25200 * last.total_return - 5 * len) * beta.d
                                   - 7 * beta.n * len,
                               len * beta.d)
               ELSE /\ IsRatio(alpha.rat, 25200 * last.total_return - 5 * len, len)
                    /\ alpha.surd.r = beta.r /\ alpha.surd.d > 0
                    /\ alpha.surd.n * beta.d = (0 - 7) * beta.n * alpha.surd.d

\* ten days that do not all agree, with a standard deviation that is no
\* rational number: beta is not the neutral 1 and alpha carries 7 times it
C21_Witness ==
    /\ RiskMeasured
    /\ Len(arg_values) = 10
    /\ last.out.beta.r > 1
    /\ last.out.alpha.surd.n < 0

----------------------------------------------------------------------------
(* The chart (SpecChart) *)

ChartCalled == last.op = "_prepare_chart_data"

----------------------------------------------------------------------------
(* Orders from two threads (SpecThreads) *)

\* C23: in every ledger a reader on another thread observes, each sell with a
\* buy of its user and stock before it carries its result, which is
\* (sell price - price of the latest such buy before it) * quantity: no sell
\* is seen without its result, and none is priced against a later buy.
C23_ReaderSeesPricedSells ==
    last.op = "read" =>
        \A i \in 1..Len(last.trades) :
            (last.trades[i].action = SELL /\ PriorBuys(last.trades, i) # {}) =>
                last.trades[i].result =
                    Some((last.trades[i].price
                            - last.trades[Greatest(PriorBuys(last.trades, i))].price)
                         * last.trades[i].quantity)

\* C24: every trade in the ledger has the id of its place, counted from 1, so
\* that no two trades share an id, also when the job thread and the event
\* loop place orders at the same time.
C24_IdIsPlace ==
    \A i \in 1..Len(trades_db) : trades_db[i].id = i

----------------------------------------------------------------------------
(* The evening session (SpecEvening) *)

EveningCalled == last.op = "execute_evening_sell_orders"

\* what the trades of a ledger leave a user holding of a stock
NetIn(db, user_id, stock) ==
    LET mine == {i \in 1..Len(db) : db[i].user_id = user_id /\ db[i].stock = stock}
    IN  SumOver([i \in 1..Len(db) |->
                    IF db[i].action = BUY THEN db[i].quantity ELSE 0 - db[i].quantity], mine)

\* C25: execute_evening_sell_orders for a user with settings in PAPER mode
\* appends exactly one sell for each stock the user held, of the quantity held
\* and with a result, and the user holds nothing afterwards; for a user
\* without settings or in another mode it appends nothing and returns [].
C25_EveningClosesAll ==
    EveningCalled =>
        LET user_id == last.user_id
            before == last.before
            added == SubSeq(trades_db, Len(before) + 1, Len(trades_db))
            open == {s \in Stocks : NetIn(before, user_id, s) > 0}
            paper == \E i \in 1..Len(user_settings_db) :
                        /\ user_settings_db[i].user_id = user_id
                        /\ user_settings_db[i].mode = PAPER
        IN  /\ SubSeq(trades_db, 1, Len(before)) = before
            /\ paper =>
                  /\ Len(added) = Cardinality(open)
                  /\ \A s \in open : \E k \in 1..Len(added) :
                        /\ added[k].stock = s /\ added[k].user_id = user_id
                        /\ added[k].action = SELL
                        /\ added[k].quantity = NetIn(before, user_id, s)
                        /\ added[k].result # None
                  /\ \A s \in Stocks : NetIn(trades_db, user_id, s) <= 0
            /\ ~paper => (added = <<>> /\ last.ret = <<>>)

----------------------------------------------------------------------------
(* The wishlist (SpecWishlist) *)

WithId(store, wishlist_id) == {i \in 1..Len(store) : store[i].id = wishlist_id}

\* C26: no two items of the wishlist store have the same id, so that a call
\* of remove_from_wishlist that removes an item found that one item under the
\* id and no other.
C26_WishlistIdsUnique ==
    /\ \A i \in 1..Len(wishlist_db), j \in 1..Len(wishlist_db) :
          i # j => wishlist_db[i].id # wishlist_db[j].id
    /\ (last.op = "remove_from_wishlist" /\ last.ret) =>
          Cardinality(WithId(last.before.wishlist, last.wishlist_id)) = 1

\* the item of the store of (user, stock symbol), if any
OfPair(store, user_id, stock_symbol) ==
    {i \in 1..Len(store) : store[i].user_id = user_id /\ store[i].stock_symbol = stock_symbol}

\* C27: the store holds at most one item per (user, stock symbol);
\* add_to_wishlist for a pair in the store returns false and leaves store and
\* log as they were; remove_from_wishlist removes one item, one whose id and
\* user are those asked for, and returns false and changes nothing when there
\* is none.
C27_OnePerUserAndStock ==
    /\ \A i \in 1..Len(wishlist_db), j \in 1..Len(wishlist_db) :
          (/\ i # j
           /\ wishlist_db[i].user_id = wishlist_db[j].user_id)
              => wishlist_db[i].stock_symbol # wishlist_db[j].stock_symbol
    /\ last.op = "add_to_wishlist" =>
          IF OfPair(last.before.wishlist, last.user_id, last.stock_symbol) # {}
          THEN /\ last.ret = FALSE
               /\ wishlist_db = last.before.wishlist
               /\ logs_db = last.before.logs
          ELSE /\ last.ret = TRUE
               /\ Len(wishlist_db) = Len(last.before.wishlist) + 1
               /\ SubSeq(wishlist_db, 1, Len(last.before.wishlist)) = last.before.wishlist
               /\ OfPair(wishlist_db, last.user_id, last.stock_symbol) = {Len(wishlist_db)}
    /\ last.op = "remove_from_wishlist" =>
          LET store == last.before.wishlist
              asked == {i \in WithId(store, last.wishlist_id) :
                           store[i].user_id = last.user_id}
          IN  IF asked = {}
              THEN /\ last.ret = FALSE
                   /\ wishlist_db = store
                   /\ logs_db = last.before.logs
              ELSE /\ last.ret = TRUE
                   /\ \E i \in asked :
                         wishlist_db = [k \in 1..(Len(store) - 1) |->
                                           IF k < i THEN store[k] ELSE store[k + 1]]
                   /\ Len(logs_db) = Len(last.before.logs) + 1

\* a user asks to remove by an id that an item of the other user carries, and
\* nothing is removed
C27_Witness ==
    /\ last.op = "remove_from_wishlist"
    /\ last.ret = FALSE
    /\ WithId(last.before.wishlist, last.wishlist_id) # {}
    /\ Len(wishlist_db) >= 2
    /\ \E i \in 1..Len(wishlist_db) : wishlist_db[i].user_id = last.user_id

----------------------------------------------------------------------------
(* Manual trades (SpecManual) *)

ManualCalled == last.op = "execute_manual_trade"

HasSettings(user_id) ==
    \E i \in 1..Len(user_settings_db) : user_settings_db[i].user_id = user_id

\* C28: execute_manual_trade for a user without a settings record returns
\* false, leaves the ledger as it was and appends one log entry and nothing
\* else; for a user with settings it appends exactly one trade, of the action
\* asked for.
C28_ManualTrade ==
    ManualCalled =>
        LET r == last.request
            before == last.before
        IN  IF HasSettings(r.user_id)
            THEN /\ Len(trades_db) = Len(before.trades) + 1
                 /\ SubSeq(trades_db, 1, Len(before.trades)) = before.trades
                 /\ trades_db[Len(trades_db)].action = last.action
                 /\ trades_db[Len(trades_db)].user_id = r.user_id
                 /\ trades_db[Len(trades_db)].stock = r.stock_symbol
                 /\ trades_db[Len(trades_db)].quantity = r.quantity
                 /\ r.price # None => trades_db[Len(trades_db)].price = r.price[1]
                 /\ last.ret = TRUE
            ELSE /\ last.ret = FALSE
                 /\ trades_db = before.trades
                 /\ Len(logs_db) = Len(before.logs) + 1
                 /\ SubSeq(logs_db, 1, Len(before.logs)) = before.logs
                 /\ logs_db[Len(logs_db)].user_id = r.user_id

\* a user without settings asks for a trade when the ledger already holds
\* trades of another user: false comes back and the ledger is as before
C28_Witness ==
    /\ ManualCalled
    /\ ~HasSettings(last.request.user_id)
    /\ last.ret = FALSE
    /\ Len(trades_db) >= 2
    /\ Len(logs_db) > Len(trades_db)

----------------------------------------------------------------------------
(* The sums of a window (SpecSums) *)

SumsCalled == last.op = "window_sums"

StartValue == Rupees(10000)

\* the sum as a real number of the floats f[i], i in S
RECURSIVE ExactSumOver(_, _)
ExactSumOver(f, S) ==
    IF S = {} THEN Rupees(0)
    ELSE LET i == CHOOSE k \in S : TRUE IN ExactSum(f[i], ExactSumOver(f, S \ {i}))

\* two real numbers less than 2^-30 apart
Near(x, y) ==
    LET gap == ExactSum(x, Negated(y))
    IN  gap.mag[1] = 0 /\ gap.mag[2] = 0

\* no result of the window carries paise
WholeRupees(x) == x.mag[1] % Pow2(FracBits - 2 * 26) = 0 /\ x.mag[2] = 0 /\ x.mag[3] = 0
AllWhole == \A i \in 1..Len(arg_trades) : WholeRupees(FloatOrZero(arg_trades[i].result))

\* trade i is at or before trade k in the order of the stable sort by timestamp
NotAfter(i, k) ==
    \/ arg_trades[i].timestamp < arg_trades[k].timestamp
    \/ arg_trades[i].timestamp = arg_trades[k].timestamp /\ i <= k

\* 10000 plus the results up to trade k, as a real number
RunningTotal(k) ==
    ExactSum(StartValue,
             ExactSumOver(FloatResults(arg_trades),
                          {i \in 1..Len(arg_trades) : NotAfter(i, k)}))

NeverBelowZero == \A k \in 1..Len(arg_trades) : ~RunningTotal(k).neg

\* 10000 + total_return as a real number
StartPlusReturn == ExactSum(StartValue, last.out.total_return)

\* 10000 + total_return in binary64
StartPlusReturnRounded == float_add(StartValue, last.out.total_return)

\* portfolio_value against a value of 10000 + total_return
ValueAgainst(start_plus_return) ==
    /\ ~float_less(last.out.portfolio_value, start_plus_return)
    /\ last.out.portfolio_value = start_plus_return <=> NeverBelowZero

DailySum ==
    ExactSumOver(last.out.daily_returns, 1..Len(last.out.daily_returns))

\* sum(daily_returns) in binary64
DailySumRounded == float_sum(last.out.daily_returns, Rupees(0))

====
